---- MODULE Spec2Model ----
(***************************************************************************)
(* Verification model of the Omni-Dromenon engine: the ConsensusEngine     *)
(* (consensus.js), the Scheduler (scheduler.js), the OSCBridge             *)
(* (osc-bridge.js) and the generator functions (generator.js).             *)
(*                                                                         *)
(* Numbers.  JavaScript doubles are modelled in fixed point.  Parameter    *)
(* values live on a grid of Q units per 1.0 (0.5 is Q \div 2); weights and *)
(* the configuration coefficients are in thousandths.  Every product and   *)
(* quotient is rounded to the nearest unit, as a double operation rounds   *)
(* to the nearest representable value; sums of units are exact.  Of the   *)
(* doubles that are no finite number, Infinity is the weight of an input   *)
(* whose Math.exp overflows and NaN is a value of its own.                 *)
(* Times are integer milliseconds.                                         *)
(***************************************************************************)
EXTENDS Integers, Sequences, FiniteSets, TLC

VARIABLES
  inputs, state, overrides,      \* ConsensusEngine: this.inputs, this.state, this.overrides
  consensus,                     \* the driver's copy of the last calculateConsensus result
  bpm, beatDurationMs,           \* Scheduler: this._bpm, this._beatDurationMs
  scheduledNotes, nextBeatIndex, \* Scheduler: this._scheduledNotes, this._nextBeatIndex
  bridge,                        \* OSCBridge: the fields of the instance
  trail,                         \* the values the last call assigned to bridge.state, in order
  delivered,                     \* the number of calls made to the onSend callback
  rngs,                          \* the closures seededRandom has returned
  results,                       \* what the generateSequence calls returned
  expanded,                      \* what the last applyRecursion call returned
  transposed,                    \* what the last transpose call returned
  snapshot,                      \* the value a caller holds, and which stored objects are in it
  last,                          \* the last call and how it ended
  steps                          \* the number of calls made so far

engineVars == <<inputs, state, overrides, consensus>>

schedulerVars == <<bpm, beatDurationMs, scheduledNotes, nextBeatIndex>>

bridgeVars == <<bridge, trail, delivered>>

generatorVars == <<rngs, results, expanded, transposed>>

vars == <<engineVars, schedulerVars, bridgeVars, generatorVars, snapshot, last, steps>>

(***************************************************************************)
(* Bounds of the model                                                     *)
(***************************************************************************)
\* grid units per 1.0 of a parameter value
Q == 10
\* the number of calls made on an instance
MaxSteps == 4
\* the number of events a scheduler is given
MaxEvents == 3
\* the deepest recursion applyRecursion is asked for
MaxDepth == 2

(***************************************************************************)
(* Arithmetic helpers                                                      *)
(***************************************************************************)
Abs(x) == IF x < 0 THEN -x ELSE x

Max(a, b) == IF a > b THEN a ELSE b

Min(a, b) == IF a < b THEN a ELSE b

\* a / b rounded to the nearest integer (b > 0), halves away from zero
RoundDiv(a, b) ==
  IF a >= 0 THEN (2 * a + b) \div (2 * b)
            ELSE -((2 * (-a) + b) \div (2 * b))

\* thousandths: 1.0
ONE == 10 * 100

\* terms of the exponential series summed by ExpMilli
ExpTerms == 8

RECURSIVE ExpSeries(_, _, _)
ExpSeries(x, k, term) ==
  IF k > ExpTerms THEN 0
  ELSE term + ExpSeries(x, k + 1, RoundDiv(term * x, (k + 1) * ONE))

\* Math.exp on thousandths: exp(x / 1000) * 1000
ExpMilli(x) == ExpSeries(x, 0, ONE)

(***************************************************************************)
(* DEFAULT_CONFIG                                                          *)
(***************************************************************************)
INPUT_DECAY_WINDOW_MS == 5000

\* 0.15, in thousandths
CONSENSUS_SMOOTHING == 150

\* 0.6, in thousandths
BETA_TEMPORAL == 600

\* 0.4, in thousandths
GAMMA_CONSENSUS == 400

\* the floor of the proximity weight, Math.max(0.1, .), in thousandths
MIN_PROXIMITY == 100

\* a configuration of two of the default parameters
PARAMETERS == {"mood", "tempo"}

\* the initial value of every parameter, 0.5
DefaultValue == Q \div 2

(***************************************************************************)
(* Inputs of the operations                                                *)
(***************************************************************************)
\* participant ids; "" is a falsy id
Users == {"u1", "u2"}

UserArgs == Users \cup {""}

\* the instants: one decay window apart, and one millisecond past the last,
\* so that an input can be exactly one window old, exactly two, and older
Instants ==
  {1, 1 + INPUT_DECAY_WINDOW_MS, 1 + 2 * INPUT_DECAY_WINDOW_MS,
   2 + 2 * INPUT_DECAY_WINDOW_MS}

\* a `now` argument: an instant, or 0 (which is also what an omitted one is)
NowArgs == {0} \cup Instants

\* a `timestamp` argument of recordInput
StampArgs == {0, 1, 1 + INPUT_DECAY_WINDOW_MS}

\* a timestamp two hours past the first instant: the clock of a participant
\* that runs ahead, or a wall-clock reading among instants counted from 1
FutureStamp == 1 + 2 * 60 * 60 * 1000

\* what Date.now() may return when the engine reads the wall clock
ClockValues == Instants

\* the wall-clock readings a call with time argument t can make
ClockReads(t) == IF t = 0 THEN ClockValues ELSE {1}

NoValues == [p \in {} |-> 0]

\* a `values` argument: its JavaScript kind and, for an object, its entries
\* for the recognized parameters
ObjA == [kind |-> "object", m |-> [p \in {"mood"} |-> Q]]

ObjB == [kind |-> "object", m |-> [p \in PARAMETERS |-> IF p = "mood" THEN 0 ELSE Q]]

NullV == [kind |-> "null", m |-> NoValues]

StringV == [kind |-> "string", m |-> NoValues]

NumberV == [kind |-> "number", m |-> NoValues]

UndefinedV == [kind |-> "undefined", m |-> NoValues]

ValuesArgs == {ObjA, ObjB, NullV, StringV, NumberV, UndefinedV}

\* typeof v
TypeOf(v) == IF v.kind \in {"object", "null", "array"} THEN "object" ELSE v.kind

\* a `param` argument of setOverride
ParamArgs == PARAMETERS \cup {"nonexistent"}

\* a `value` argument of setOverride: a number, or null
OverrideArgs ==
  {[isNull |-> TRUE, n |-> 0]} \cup {[isNull |-> FALSE, n |-> v] : v \in {Q \div 5, Q}}

\* a consensus: null, or an object of parameter values
NullConsensus == [k |-> "null", m |-> NoValues]

\* the outcome of a calculateConsensus call that raised an error
Threw == [k |-> "throw", m |-> NoValues]

\* every call is counted, and the model makes MaxSteps of them
Counted == steps < MaxSteps /\ steps' = steps + 1

\* what the last call was, the parameter it named, the time (timestamp, now)
\* it was given, the number it returned and whether it raised an error
TimedCall(op, arg, t, ret, threw) ==
  [op |-> op, arg |-> arg, t |-> t, ret |-> ret, threw |-> threw]

Call(op, arg, ret, threw) == TimedCall(op, arg, 0, ret, threw)

(***************************************************************************)
(* Snapshots.  A caller holds the value the last getState(), getSchedule() *)
(* or getRecentMessages() returned: `map` or `list` is that object as the  *)
(* caller has it now, and for a list at[i] is the position, in the stored  *)
(* list, of the very object that is entry i of the caller's list (0 when   *)
(* entry i is not a stored object).                                        *)
(***************************************************************************)
NoSnapshot == [of |-> "none", map |-> [p \in {} |-> 0], list |-> <<>>, at |-> <<>>]

\* the caller's links after the stored list `of` is replaced by a new list
\* of new objects
SnapshotAfterReplacing(of) ==
  IF snapshot.of = of
    THEN [snapshot EXCEPT !.at = [i \in DOMAIN snapshot.at |-> 0]]
    ELSE snapshot

\* the caller's links after a stored list of positions 1..n gets a new
\* object at position p
SnapshotAfterInsert(of, p) ==
  IF snapshot.of = of
    THEN [snapshot EXCEPT !.at = [i \in DOMAIN snapshot.at |->
                                IF snapshot.at[i] >= p THEN snapshot.at[i] + 1 ELSE snapshot.at[i]]]
    ELSE snapshot

(***************************************************************************)
(* ConsensusEngine                                                         *)
(***************************************************************************)
\* constructor(config = {})
EngineInit ==
  /\ inputs = [u \in {} |-> 0]
  /\ state = [p \in PARAMETERS |-> DefaultValue]
  /\ overrides = [active |-> FALSE, vals |-> NoValues]
  /\ consensus = NullConsensus

\* this.inputs.set(userId, entry)
MapSet(map, key, entry) ==
  [x \in DOMAIN map \cup {key} |-> IF x = key THEN entry ELSE map[x]]

\* this.inputs.delete(userId), for a set of keys
MapDelete(map, keys) == [x \in DOMAIN map \ keys |-> map[x]]

\* timestamp || Date.now(), now || Date.now()
OrClock(t, clock) == IF t = 0 THEN clock ELSE t

\* the guard of recordInput: !userId || typeof values !== 'object'
recordInputIgnores(userId, values) == userId = "" \/ TypeOf(values) # "object"

\* mutant of Recorded: the table has room for the latest entry only
RecordedAlone(ins, userId, values, timestamp, clock) ==
  IF recordInputIgnores(userId, values) THEN ins
  ELSE MapSet(NoValues, userId,
              [timestamp |-> OrClock(timestamp, clock), values |-> values])

\* the table `ins` after recordInput(userId, values, timestamp)
Recorded(ins, userId, values, timestamp, clock) ==
  IF recordInputIgnores(userId, values) THEN ins
  ELSE MapSet(ins, userId,
              [timestamp |-> OrClock(timestamp, clock), values |-> values])

recordInput(userId, values, timestamp, clock) ==
  /\ Counted
  /\ inputs' = Recorded(inputs, userId, values, timestamp, clock)
  /\ last' = TimedCall("recordInput", "", timestamp, 0, FALSE)
  /\ UNCHANGED <<state, overrides, consensus, schedulerVars, bridgeVars, generatorVars, snapshot>>

removeInput(userId) ==
  /\ Counted
  /\ inputs' = MapDelete(inputs, {userId})
  /\ last' = Call("removeInput", "", 0, FALSE)
  /\ UNCHANGED <<state, overrides, consensus, schedulerVars, bridgeVars, generatorVars, snapshot>>

\* the entries of table `ins` that define param and are no older than the
\* decay window: the two early returns of the inner forEach
Qualifying(ins, param, now) ==
  {u \in DOMAIN ins :
     /\ param \in DOMAIN ins[u].values.m
     /\ now - ins[u].timestamp <= INPUT_DECAY_WINDOW_MS}

\* NaN, the double that is no number; the numbers of the model are >= 0
NaN == -1

\* the largest x, in thousandths, for which Math.exp(x) is a finite double
EXP_MAX == 709782

\* Math.exp((-age / INPUT_DECAY_WINDOW_MS) * BETA_TEMPORAL) is Infinity: the
\* input is so far ahead of `now` that the exponent is past EXP_MAX (taken
\* to whole decay windows)
ExpOverflows(age) ==
  (-age) \div INPUT_DECAY_WINDOW_MS > EXP_MAX \div BETA_TEMPORAL

\* Math.exp((-age / INPUT_DECAY_WINDOW_MS) * BETA_TEMPORAL), in thousandths,
\* where it is finite
temporalWeight(age) ==
  ExpMilli(RoundDiv((-age) * BETA_TEMPORAL, INPUT_DECAY_WINDOW_MS))

\* 1 - |inputValue - currentValue| * GAMMA_CONSENSUS, in thousandths
consensusWeight(inputValue, currentValue) ==
  ONE - RoundDiv(Abs(inputValue - currentValue) * GAMMA_CONSENSUS, Q)

\* temporalWeight * Math.max(0.1, consensusWeight), in thousandths
finalWeight(input, param, now) ==
  RoundDiv(
    temporalWeight(now - input.timestamp)
      * Max(MIN_PROXIMITY, consensusWeight(input.values.m[param], state[param])),
    ONE)

\* the two accumulators of one parameter, over the entries S of `ins`
RECURSIVE SumOver(_, _, _, _, _)
SumOver(ins, S, param, now, weighted) ==
  IF S = {} THEN 0
  ELSE LET u == CHOOSE x \in S : TRUE
       IN  (IF weighted THEN ins[u].values.m[param] ELSE 1)
               * finalWeight(ins[u], param, now)
             + SumOver(ins, S \ {u}, param, now, weighted)

weightedSum(ins, param, now) ==
  SumOver(ins, Qualifying(ins, param, now), param, now, TRUE)

totalWeight(ins, param, now) ==
  SumOver(ins, Qualifying(ins, param, now), param, now, FALSE)

\* totalWeight is Infinity: the temporal weight of a qualifying entry is, and
\* the proximity factor is at least 0.1.  weightedSum is then Infinity or
\* NaN (the value 0 times Infinity), and weightedSum / totalWeight is NaN
InfiniteWeight(ins, param, now) ==
  \E u \in Qualifying(ins, param, now) : ExpOverflows(now - ins[u].timestamp)

\* the test totalWeight > 0; with a state value of NaN every
\* weight of the parameter is NaN (Math.max(0.1, NaN)) and the test fails
WeightPositive(ins, param, now) ==
  /\ state[param] # NaN
  /\ InfiniteWeight(ins, param, now) \/ totalWeight(ins, param, now) > 0

\* weightedSum / totalWeight
WeightedMean(ins, param, now) ==
  IF InfiniteWeight(ins, param, now) THEN NaN
  ELSE RoundDiv(weightedSum(ins, param, now), totalWeight(ins, param, now))

\* reading input.values[param] of a null `values` raises a TypeError
ReadThrows(ins) == \E u \in DOMAIN ins : ins[u].values.kind = "null"

\* mutant of ConsensusResult: `result` is returned whether or not any
\* parameter was computed (no early return, no anyResult test)
ConsensusResultNeverNull(ins, now) ==
  IF ReadThrows(ins) THEN Threw
  ELSE [k |-> "object",
        m |-> [p \in {q \in PARAMETERS : totalWeight(ins, q, now) > 0} |->
                 RoundDiv(weightedSum(ins, p, now), totalWeight(ins, p, now))]]

\* what calculateConsensus does on table `ins` at `now` (already defaulted):
\* it raises an error, returns null, or returns the partial mapping
ConsensusResult(ins, now) ==
  IF DOMAIN ins = {} THEN NullConsensus
  ELSE IF ReadThrows(ins) THEN Threw
  ELSE LET present == {p \in PARAMETERS : WeightPositive(ins, p, now)}
       IN  IF present = {} THEN NullConsensus
           ELSE [k |-> "object",
                 m |-> [p \in present |-> WeightedMean(ins, p, now)]]

calculateConsensus(now, clock) ==
  /\ Counted
  /\ IF DOMAIN inputs # {} /\ ReadThrows(inputs)
       THEN /\ UNCHANGED consensus
            /\ last' = TimedCall("calculateConsensus", "", now, 0, TRUE)
       ELSE /\ consensus' = ConsensusResult(inputs, OrClock(now, clock))
            /\ last' = TimedCall("calculateConsensus", "", now, 0, FALSE)
  /\ UNCHANGED <<inputs, state, overrides, schedulerVars, bridgeVars, generatorVars, snapshot>>

\* mutant of Overridden: applyConsensus never skips a parameter
OverriddenNever(param) == FALSE

\* mutant of Overridden: while the active flag is set every parameter is
\* skipped, cleared or not
OverriddenWhileActive(param) == overrides.active

\* the skip of applyConsensus: an active override for param
Overridden(param) == overrides.active /\ param \in DOMAIN overrides.vals

\* mutant of Smoothed: the step is not scaled by the smoothing factor
SmoothedUnscaled(current, value) == current + (value - current)

\* current + (value - current) * CONSENSUS_SMOOTHING
Smoothed(current, value) ==
  IF current = NaN \/ value = NaN THEN NaN
  ELSE current + RoundDiv((value - current) * CONSENSUS_SMOOTHING, ONE)

applyConsensus ==
  /\ Counted
  /\ IF consensus.k = "null"
       THEN UNCHANGED state
       ELSE state' = [p \in PARAMETERS |->
                        IF p \in DOMAIN consensus.m /\ ~Overridden(p)
                          THEN Smoothed(state[p], consensus.m[p])
                          ELSE state[p]]
  /\ last' = Call("applyConsensus", "", 0, FALSE)
  /\ UNCHANGED <<inputs, overrides, consensus, schedulerVars, bridgeVars, generatorVars, snapshot>>

setOverride(param, value) ==
  /\ Counted
  /\ IF param \notin PARAMETERS
       THEN UNCHANGED <<overrides, state>>
       ELSE IF value.isNull
         THEN /\ overrides' = [overrides EXCEPT !.vals = MapDelete(@, {param})]
              /\ UNCHANGED state
         ELSE /\ overrides' = [active |-> TRUE,
                               vals |-> MapSet(overrides.vals, param, value.n)]
              /\ state' = [state EXCEPT ![param] = value.n]
  /\ last' = Call("setOverride", param, 0, FALSE)
  /\ UNCHANGED <<inputs, consensus, schedulerVars, bridgeVars, generatorVars, snapshot>>

\* the overrides object after clearOverrides()
ClearedOverrides == [active |-> FALSE, vals |-> NoValues]

\* mutant of clearOverrides: the state is put back to its defaults as well
clearOverridesAndState ==
  /\ Counted
  /\ overrides' = ClearedOverrides
  /\ state' = [p \in PARAMETERS |-> DefaultValue]
  /\ last' = Call("clearOverrides", "", 0, FALSE)
  /\ UNCHANGED <<inputs, consensus, schedulerVars, bridgeVars, generatorVars, snapshot>>

clearOverrides ==
  /\ Counted
  /\ overrides' = ClearedOverrides
  /\ last' = Call("clearOverrides", "", 0, FALSE)
  /\ UNCHANGED <<inputs, state, consensus, schedulerVars, bridgeVars, generatorVars, snapshot>>

\* the entries pruneOldInputs deletes
Expired(now) ==
  {u \in DOMAIN inputs : now - inputs[u].timestamp > INPUT_DECAY_WINDOW_MS * 2}

pruneOldInputs(now, clock) ==
  /\ Counted
  /\ inputs' = MapDelete(inputs, Expired(OrClock(now, clock)))
  /\ last' = TimedCall("pruneOldInputs", "", now,
                       Cardinality(Expired(OrClock(now, clock))), FALSE)
  /\ UNCHANGED <<state, overrides, consensus, schedulerVars, bridgeVars, generatorVars, snapshot>>

\* mutant of reset: clearOverrides is not called
resetKeepingOverrides ==
  /\ Counted
  /\ inputs' = MapDelete(inputs, DOMAIN inputs)
  /\ state' = [p \in PARAMETERS |-> DefaultValue]
  /\ last' = Call("reset", "", 0, FALSE)
  /\ UNCHANGED <<overrides, consensus, schedulerVars, bridgeVars, generatorVars, snapshot>>

reset ==
  /\ Counted
  /\ inputs' = MapDelete(inputs, DOMAIN inputs)
  /\ state' = [p \in PARAMETERS |-> DefaultValue]
  /\ overrides' = ClearedOverrides
  /\ last' = Call("reset", "", 0, FALSE)
  /\ UNCHANGED <<consensus, schedulerVars, bridgeVars, generatorVars, snapshot>>

\* getState(): a copy of the state
getState == state

\* getInputCount()
getInputCount == Cardinality(DOMAIN inputs)

\* the consensus engine under any calls
Next ==
  \/ \E u \in UserArgs, v \in ValuesArgs, t \in StampArgs :
       \E c \in ClockReads(t) : recordInput(u, v, t, c)
  \/ \E u \in Users : removeInput(u)
  \/ \E now \in NowArgs : \E c \in ClockReads(now) : calculateConsensus(now, c)
  \/ applyConsensus
  \/ \E p \in ParamArgs, v \in OverrideArgs : setOverride(p, v)
  \/ clearOverrides
  \/ \E now \in NowArgs : \E c \in ClockReads(now) : pruneOldInputs(now, c)
  \/ reset

\* the engine under calls that supply their times, with inputs stamped at
\* the first instant or two hours ahead of it
FutureNext ==
  \/ \E u \in Users, v \in {ObjA, ObjB}, t \in {1, FutureStamp} :
       recordInput(u, v, t, 1)
  \/ \E u \in Users : removeInput(u)
  \/ \E now \in {1, 1 + INPUT_DECAY_WINDOW_MS} : calculateConsensus(now, 1)
  \/ applyConsensus
  \/ \E p \in PARAMETERS, v \in OverrideArgs : setOverride(p, v)
  \/ clearOverrides
  \/ \E now \in {1, 1 + INPUT_DECAY_WINDOW_MS} : pruneOldInputs(now, 1)
  \/ reset

(***************************************************************************)
(* Scheduler.  Times and durations are in twelfths of a millisecond, the   *)
(* common denominator of the SUBDIVISIONS multipliers, so that every       *)
(* subdivision of a whole-millisecond beat is an integer.                  *)
(***************************************************************************)
\* twelfths per millisecond
PerMs == 3 * 4

\* SUBDIVISIONS, each multiplier in twelfths of a beat
SUBDIVISIONS ==
  [whole |-> 48, half |-> 24, quarter |-> 12, eighth |-> 6, sixteenth |-> 3,
   triplet_quarter |-> 8, triplet_eighth |-> 4, dotted_quarter |-> 18,
   dotted_eighth |-> 9]

\* an optional argument: {} when omitted, {x} when x is given
Given(arg) == CHOOSE x \in arg : TRUE

OrDefault(arg, default) == IF arg = {} THEN default ELSE Given(arg)

\* `bpm` arguments: the ends of the valid range and one past each end
BpmArgs == {19, 20, 300, 301}

NoteArgs == {-1, 60, 64, 128}

\* `time` arguments, in milliseconds
TimeArgs == {-1, 0, 250}

\* `duration` arguments, in milliseconds: omitted, two seconds, and none
DurationArgs == {{}, {2000}, {0}}

VelocityArgs == {{}}

\* `beat` arguments
BeatArgs == {0, 1, 2}

\* `subdivision` arguments; "" is a falsy (or omitted) one
SubdivisionArgs == {"", "triplet_eighth", "thirty_second"}

\* constructor(bpm) with bpm omitted
SchedulerInit ==
  /\ bpm = 120
  /\ beatDurationMs = 500 * PerMs
  /\ scheduledNotes = <<>>
  /\ nextBeatIndex = 0

\* the guard of setBPM
BpmInvalid(b) == b < 20 \/ b > 300

setBPM(b) ==
  /\ Counted
  /\ IF BpmInvalid(b)
       THEN /\ UNCHANGED <<bpm, beatDurationMs>>
            /\ last' = Call("setBPM", "", 0, TRUE)
       ELSE /\ bpm' = b
            /\ beatDurationMs' = (60 * 1000 * PerMs) \div b
            /\ last' = Call("setBPM", "", 0, FALSE)
  /\ UNCHANGED <<scheduledNotes, nextBeatIndex, engineVars, bridgeVars, generatorVars, snapshot>>

\* SUBDIVISIONS[subdivision] === undefined
SubdivisionUnknown(subdivision) == subdivision \notin DOMAIN SUBDIVISIONS

\* getSubdivisionDuration(subdivision), for a known subdivision
getSubdivisionDuration(subdivision) ==
  (beatDurationMs * SUBDIVISIONS[subdivision]) \div 12

\* mutant of InsertByTime: the event goes before the events of its own time
RECURSIVE InsertBeforeTies(_, _)
InsertBeforeTies(sorted, e) ==
  IF sorted = <<>> THEN <<e>>
  ELSE IF e.time <= Head(sorted).time THEN <<e>> \o sorted
  ELSE <<Head(sorted)>> \o InsertBeforeTies(Tail(sorted), e)

\* where a.time - b.time puts event e in a list sorted by time: after every
\* event whose time is not greater (the sort is stable)
RECURSIVE InsertByTime(_, _)
InsertByTime(sorted, e) ==
  IF sorted = <<>> THEN <<e>>
  ELSE IF e.time < Head(sorted).time THEN <<e>> \o sorted
  ELSE <<Head(sorted)>> \o InsertByTime(Tail(sorted), e)

\* this._scheduledNotes.sort((a, b) => a.time - b.time)
RECURSIVE SortByTime(_)
SortByTime(events) ==
  IF events = <<>> THEN <<>>
  ELSE InsertByTime(SortByTime(SubSeq(events, 1, Len(events) - 1)),
                    events[Len(events)])

\* the two guards of scheduleNote
NoteInvalid(note) == note < 0 \/ note > 127

TimeInvalid(time) == time < 0

\* mutant of Scheduled: the event is pushed and the list is not sorted again
ScheduledUnsorted(note, time, duration, velocity) ==
  Append(scheduledNotes,
    [note |-> note, time |-> time,
     duration |-> OrDefault(duration, beatDurationMs),
     velocity |-> OrDefault(velocity, 100)])

\* the body of scheduleNote after its guards: push, then sort
Scheduled(note, time, duration, velocity) ==
  SortByTime(Append(scheduledNotes,
    [note |-> note, time |-> time,
     duration |-> OrDefault(duration, beatDurationMs),
     velocity |-> OrDefault(velocity, 100)]))

\* the position the sort gives a pushed event of this time
InsertedAt(time) ==
  1 + Cardinality({i \in 1..Len(scheduledNotes) : scheduledNotes[i].time <= time})

scheduleNote(note, time, duration, velocity) ==
  /\ Counted
  /\ Len(scheduledNotes) < MaxEvents
  /\ IF NoteInvalid(note) \/ TimeInvalid(time)
       THEN /\ UNCHANGED <<scheduledNotes, snapshot>>
            /\ last' = Call("scheduleNote", "", 0, TRUE)
       ELSE /\ scheduledNotes' = Scheduled(note, time, duration, velocity)
            /\ snapshot' = SnapshotAfterInsert("schedule", InsertedAt(time))
            /\ last' = Call("scheduleNote", "", 0, FALSE)
  /\ UNCHANGED <<bpm, beatDurationMs, nextBeatIndex, engineVars, bridgeVars, generatorVars>>

scheduleAtBeat(note, beat, subdivision, velocity) ==
  LET time == (beat - 1) * beatDurationMs
      sub == IF subdivision = "" THEN "quarter" ELSE subdivision
  IN  /\ Counted
      /\ Len(scheduledNotes) < MaxEvents
      /\ IF SubdivisionUnknown(sub) \/ NoteInvalid(note) \/ TimeInvalid(time)
           THEN /\ UNCHANGED <<scheduledNotes, snapshot>>
                /\ last' = Call("scheduleAtBeat", "", 0, TRUE)
           ELSE /\ scheduledNotes' =
                     Scheduled(note, time, {getSubdivisionDuration(sub)}, velocity)
                /\ snapshot' = SnapshotAfterInsert("schedule", InsertedAt(time))
                /\ last' = Call("scheduleAtBeat", "", 0, FALSE)
      /\ UNCHANGED <<bpm, beatDurationMs, nextBeatIndex, engineVars, bridgeVars, generatorVars>>

\* mutant of getNextBeat: the cursor is incremented before the time is
\* computed
getNextBeatIncrementedFirst ==
  /\ Counted
  /\ nextBeatIndex' = nextBeatIndex + 1
  /\ last' = Call("getNextBeat", "", (nextBeatIndex + 1) * beatDurationMs, FALSE)
  /\ UNCHANGED <<bpm, beatDurationMs, scheduledNotes, engineVars, bridgeVars, generatorVars, snapshot>>

getNextBeat ==
  /\ Counted
  /\ nextBeatIndex' = nextBeatIndex + 1
  /\ last' = Call("getNextBeat", "", nextBeatIndex * beatDurationMs, FALSE)
  /\ UNCHANGED <<bpm, beatDurationMs, scheduledNotes, engineVars, bridgeVars, generatorVars, snapshot>>

resetBeatCounter ==
  /\ Counted
  /\ nextBeatIndex' = 0
  /\ last' = Call("resetBeatCounter", "", 0, FALSE)
  /\ UNCHANGED <<bpm, beatDurationMs, scheduledNotes, engineVars, bridgeVars, generatorVars, snapshot>>

\* getBeatAt(timeMs)
getBeatAt(timeMs) == timeMs \div beatDurationMs

\* Math.round(x / y) for y > 0: halves round up
MathRound(x, y) == (2 * x + y) \div (2 * y)

\* mutant of quantize: the grid index is scaled by the beat, not by the grid
quantizeOnBeat(time, subdivision) ==
  MathRound(time, getSubdivisionDuration(subdivision)) * beatDurationMs

\* quantize(time, subdivision), for a known subdivision
quantize(time, subdivision) ==
  MathRound(time, getSubdivisionDuration(subdivision))
    * getSubdivisionDuration(subdivision)

\* mutant of QuantizedEvents: the events are built anew, with the default
\* duration, and not spread from the stored ones
QuantizedEventsRebuilt(sub) ==
  [i \in 1..Len(scheduledNotes) |->
     [scheduledNotes[i] EXCEPT !.time = quantize(@, sub),
                               !.duration = beatDurationMs]]

\* the map of quantizeAll
QuantizedEvents(sub) ==
  [i \in 1..Len(scheduledNotes) |->
     [scheduledNotes[i] EXCEPT !.time = quantize(@, sub)]]

quantizeAll(subdivision) ==
  LET sub == IF subdivision = "" THEN "quarter" ELSE subdivision
  IN  /\ Counted
      /\ IF SubdivisionUnknown(sub) /\ scheduledNotes # <<>>
           THEN /\ UNCHANGED <<scheduledNotes, snapshot>>
                /\ last' = Call("quantizeAll", subdivision, 0, TRUE)
           ELSE /\ scheduledNotes' =
                     IF scheduledNotes = <<>> THEN <<>>
                     ELSE SortByTime(QuantizedEvents(sub))
                /\ snapshot' = SnapshotAfterReplacing("schedule")
                /\ last' = Call("quantizeAll", subdivision, 0, FALSE)
      /\ UNCHANGED <<bpm, beatDurationMs, nextBeatIndex, engineVars, bridgeVars, generatorVars>>

\* getSchedule(): a copy of the list
getSchedule == scheduledNotes

\* getTotalDuration()
getTotalDuration ==
  IF Len(scheduledNotes) = 0 THEN 0
  ELSE scheduledNotes[Len(scheduledNotes)].time
         + scheduledNotes[Len(scheduledNotes)].duration

clear ==
  /\ Counted
  /\ scheduledNotes' = <<>>
  /\ nextBeatIndex' = 0
  /\ snapshot' = SnapshotAfterReplacing("schedule")
  /\ last' = Call("clear", "", 0, FALSE)
  /\ UNCHANGED <<bpm, beatDurationMs, engineVars, bridgeVars, generatorVars>>

\* the scheduler under any calls
SchedulerNext ==
  \/ \E b \in BpmArgs : setBPM(b)
  \/ \E n \in NoteArgs, t \in TimeArgs, d \in DurationArgs, v \in VelocityArgs :
       scheduleNote(n, t * PerMs, IF d = {} THEN d ELSE {Given(d) * PerMs}, v)
  \/ \E n \in NoteArgs, b \in BeatArgs, s \in SubdivisionArgs, v \in VelocityArgs :
       scheduleAtBeat(n, b, s, v)
  \/ getNextBeat
  \/ resetBeatCounter
  \/ \E s \in SubdivisionArgs : quantizeAll(s)
  \/ clear

(***************************************************************************)
(* OSC messages.  A value is its JavaScript kind and, for a number, the    *)
(* number in units of 1/Q.  A message is its address, type tag and value;  *)
(* its timestamp (a wall-clock reading no operation reads back) is not     *)
(* carried.                                                                *)
(***************************************************************************)
\* the default of getRecentMessages(count)
DEFAULT_RECENT_COUNT == 10

\* `value` arguments of send: 0.5, 1, a string, true, and undefined
FloatV == [kind |-> "number", n |-> Q \div 2]

IntegerV == [kind |-> "number", n |-> Q]

TextV == [kind |-> "string", n |-> 0]

TrueV == [kind |-> "boolean", n |-> 1]

NoV == [kind |-> "undefined", n |-> 0]

SendValueArgs == {FloatV, IntegerV, TextV, TrueV, NoV}

\* `param` arguments of send
SendParamArgs == {"mood"}

\* `perfState` arguments of sendBundle, as the entries Object.entries lists:
\* an empty object, { mood: 0.5, name: 'test' }, and a state of four parameters
BundleArgs ==
  { <<>>,
    << <<"mood", FloatV>>, <<"name", TextV>> >>,
    << <<"mood", FloatV>>, <<"tempo", IntegerV>>,
       <<"intensity", FloatV>>, <<"density", FloatV>> >> }

\* the options of the constructor; "" and 0 are falsy (or omitted) ones
HostOptions == {"", "localhost"}

PortOptions == {0, -1, 1, 65535, 65536}

PrefixOptions == {"", "osc"}

\* the guard of formatMessage: a string that starts with "/"
AddressInvalid(address) == Len(address) = 0 \/ SubSeq(address, 1, 1) # "/"

\* the guard of the last branch of formatMessage
ValueUnsupported(value) == value.kind \notin {"number", "string", "boolean"}

\* Number.isInteger(value) ? 'i' : 'f', 's', value ? 'T' : 'F'
TypeTag(value) ==
  IF value.kind = "number" THEN (IF value.n % Q = 0 THEN "i" ELSE "f")
  ELSE IF value.kind = "string" THEN "s"
  ELSE IF value.n = 1 THEN "T" ELSE "F"

\* formatMessage(address, value), when neither guard throws
formatMessage(address, value) ==
  [address |-> address, typeTag |-> TypeTag(value), value |-> value.n]

\* formatMessage throws on this call
formatMessageThrows(address, value) ==
  AddressInvalid(address) \/ ValueUnsupported(value)

\* mutant of NumericEntries: every entry is formatted, whatever its type
NumericEntriesUnfiltered(entries) == entries

\* the entries of a state formatBundle formats: those with a number
RECURSIVE NumericEntries(_)
NumericEntries(entries) ==
  IF entries = <<>> THEN <<>>
  ELSE (IF Head(entries)[2].kind = "number" THEN <<Head(entries)>> ELSE <<>>)
         \o NumericEntries(Tail(entries))

\* prefix || '/omni'
OrOmni(prefix) == IF prefix = "" THEN "/omni" ELSE prefix

\* the messages of formatBundle(state, prefix), when no formatMessage throws
formatBundle(entries, prefix) ==
  [i \in 1..Len(NumericEntries(entries)) |->
     formatMessage(OrOmni(prefix) \o "/" \o NumericEntries(entries)[i][1],
                   NumericEntries(entries)[i][2])]

\* formatBundle throws: it formats a message, and the address is invalid
formatBundleThrows(entries, prefix) ==
  NumericEntries(entries) # <<>> /\ AddressInvalid(OrOmni(prefix) \o "/")

(***************************************************************************)
(* OSCBridge                                                               *)
(***************************************************************************)
\* constructor(options): each option falls back to its default when falsy
Constructed(host, port, prefix, onSend) ==
  [host |-> IF host = "" THEN "127.0.0.1" ELSE host,
   port |-> IF port = 0 THEN 57120 ELSE port,
   prefix |-> IF prefix = "" THEN "/omni" ELSE prefix,
   onSend |-> onSend,
   state |-> "DISCONNECTED",
   messageCount |-> 0,
   lastError |-> "",   \* null
   messageLog |-> <<>>]

\* new OSCBridge(): no call has assigned a state or reached a callback
BridgeInit ==
  /\ bridge = Constructed("", 0, "", FALSE)
  /\ trail = <<>>
  /\ delivered = 0

\* new OSCBridge(options)
BridgeInitWith ==
  /\ \E h \in HostOptions, p \in PortOptions, x \in PrefixOptions, c \in BOOLEAN :
       bridge = Constructed(h, p, x, c)
  /\ trail = <<>>
  /\ delivered = 0

\* mutant of TargetInvalid: the upper end of the port range is not tested
TargetInvalidNoUpper == bridge.host = "" \/ bridge.port = 0 \/ bridge.port < 1

\* the validation of connect: !host || !port || port < 1 || port > 65535
TargetInvalid ==
  bridge.host = "" \/ bridge.port = 0 \/ bridge.port < 1 \/ bridge.port > 65535

\* mutant of AlreadyConnected: connect does not test for CONNECTED
AlreadyConnectedUntested == FALSE

\* the first guard of connect
AlreadyConnected == bridge.state = "CONNECTED"

connect ==
  /\ Counted
  /\ IF AlreadyConnected
       THEN /\ UNCHANGED bridge
            /\ trail' = <<>>
            /\ last' = Call("connect", "", 1, FALSE)
       ELSE IF TargetInvalid
         THEN /\ bridge' = [bridge EXCEPT !.state = "ERROR",
                                          !.lastError = "Invalid target"]
              /\ trail' = <<"CONNECTING", "ERROR">>
              /\ last' = Call("connect", "", 0, FALSE)
         ELSE /\ bridge' = [bridge EXCEPT !.state = "CONNECTED"]
              /\ trail' = <<"CONNECTING", "CONNECTED">>
              /\ last' = Call("connect", "", 1, FALSE)
  /\ UNCHANGED <<delivered, engineVars, schedulerVars, generatorVars, snapshot>>

\* mutant of disconnect: the log is kept
disconnectKeepingLog ==
  /\ Counted
  /\ bridge' = [bridge EXCEPT !.state = "DISCONNECTED"]
  /\ trail' = <<"DISCONNECTED">>
  /\ snapshot' = snapshot
  /\ last' = Call("disconnect", "", 0, FALSE)
  /\ UNCHANGED <<delivered, engineVars, schedulerVars, generatorVars>>

disconnect ==
  /\ Counted
  /\ bridge' = [bridge EXCEPT !.state = "DISCONNECTED", !.messageLog = <<>>]
  /\ trail' = <<"DISCONNECTED">>
  /\ snapshot' = SnapshotAfterReplacing("messages")
  /\ last' = Call("disconnect", "", 0, FALSE)
  /\ UNCHANGED <<delivered, engineVars, schedulerVars, generatorVars>>

\* the log after the messages are pushed
Logged(messages) == bridge.messageLog \o messages

\* mutant of NotConnected: only DISCONNECTED stops a send
NotConnectedOnlyDisconnected == bridge.state = "DISCONNECTED"

\* the gate of send and sendBundle: this.state !== BridgeState.CONNECTED
NotConnected == bridge.state # "CONNECTED"

\* send and sendBundle return -1 for null, and otherwise the number of
\* messages in what they return
send(param, value) ==
  /\ Counted
  /\ trail' = <<>>
  /\ IF NotConnected
       THEN /\ UNCHANGED <<bridge, delivered>>
            /\ last' = Call("send", param, -1, FALSE)
       ELSE IF formatMessageThrows(bridge.prefix \o "/" \o param, value)
         THEN /\ UNCHANGED <<bridge, delivered>>
              /\ last' = Call("send", param, 0, TRUE)
         ELSE /\ bridge' =
                   [bridge EXCEPT
                      !.messageCount = @ + 1,
                      !.messageLog =
                        Logged(<<formatMessage(bridge.prefix \o "/" \o param, value)>>)]
              /\ delivered' = IF bridge.onSend THEN delivered + 1 ELSE delivered
              /\ last' = Call("send", param, 1, FALSE)
  /\ UNCHANGED <<engineVars, schedulerVars, generatorVars, snapshot>>

sendBundle(perfState) ==
  /\ Counted
  /\ trail' = <<>>
  /\ IF NotConnected
       THEN /\ UNCHANGED <<bridge, delivered>>
            /\ last' = Call("sendBundle", "", -1, FALSE)
       ELSE IF formatBundleThrows(perfState, bridge.prefix)
         THEN /\ UNCHANGED <<bridge, delivered>>
              /\ last' = Call("sendBundle", "", 0, TRUE)
         ELSE /\ bridge' =
                   [bridge EXCEPT
                      !.messageCount = @ + Len(formatBundle(perfState, bridge.prefix)),
                      !.messageLog = Logged(formatBundle(perfState, bridge.prefix))]
              /\ delivered' =
                   IF bridge.onSend
                     THEN delivered + Len(formatBundle(perfState, bridge.prefix))
                     ELSE delivered
              /\ last' = Call("sendBundle", "",
                              Len(formatBundle(perfState, bridge.prefix)), FALSE)
  /\ UNCHANGED <<engineVars, schedulerVars, generatorVars, snapshot>>

\* getStatus()
getStatus ==
  [state |-> bridge.state, host |-> bridge.host, port |-> bridge.port,
   prefix |-> bridge.prefix, messageCount |-> bridge.messageCount,
   lastError |-> bridge.lastError]

\* getRecentMessages(count), for count >= 0: count || 10, then
\* messageLog.slice(-count)
getRecentMessages(count) ==
  LET n == IF count = 0 THEN DEFAULT_RECENT_COUNT ELSE count
  IN  SubSeq(bridge.messageLog, Max(1, Len(bridge.messageLog) - n + 1),
             Len(bridge.messageLog))

\* the bridge under any calls
BridgeNext ==
  \/ connect
  \/ disconnect
  \/ \E p \in SendParamArgs, v \in SendValueArgs : send(p, v)
  \/ \E b \in BundleArgs : sendBundle(b)

(***************************************************************************)
(* Callers of the accessors.  getState() returns { ...this.state },        *)
(* getSchedule() returns [...this._scheduledNotes] and getRecentMessages() *)
(* returns this.messageLog.slice(-count): a new object or array each time, *)
(* whose entries are the stored numbers, events and messages themselves.   *)
(***************************************************************************)
\* `count` arguments of getRecentMessages: omitted (or 0), and 1
CountArgs == {0, 1}

getStateCall ==
  /\ Counted
  /\ snapshot' = [of |-> "state", map |-> getState, list |-> <<>>, at |-> <<>>]
  /\ last' = Call("getState", "", 0, FALSE)
  /\ UNCHANGED <<engineVars, schedulerVars, bridgeVars, generatorVars>>

getScheduleCall ==
  /\ Counted
  /\ snapshot' = [of |-> "schedule", map |-> NoSnapshot.map, list |-> getSchedule,
                  at |-> [i \in 1..Len(getSchedule) |-> i]]
  /\ last' = Call("getSchedule", "", Len(getSchedule), FALSE)
  /\ UNCHANGED <<engineVars, schedulerVars, bridgeVars, generatorVars>>

getRecentMessagesCall(count) ==
  /\ Counted
  /\ snapshot' =
       [of |-> "messages", map |-> NoSnapshot.map, list |-> getRecentMessages(count),
        at |-> [i \in 1..Len(getRecentMessages(count)) |->
                  Len(bridge.messageLog) - Len(getRecentMessages(count)) + i]]
  /\ last' = Call("getRecentMessages", "", Len(getRecentMessages(count)), FALSE)
  /\ UNCHANGED <<engineVars, schedulerVars, bridgeVars, generatorVars>>

\* what a caller does to the entries of the object it holds
Edits == {"add", "remove", "replace"}

\* an object of the caller's own making
OwnObject == [note |-> 0, time |-> 0, duration |-> 0, velocity |-> 0]

\* the caller adds an entry to the object it holds, removes its first entry
\* (of a state: mood), or puts a value of its own in that entry's place
callerEdits(edit) ==
  /\ Counted
  /\ snapshot.of # "none"
  /\ IF snapshot.of = "state"
       THEN snapshot' =
              [snapshot EXCEPT !.map =
                 IF edit = "add" THEN MapSet(@, "extra", Q)
                 ELSE IF edit = "remove" THEN MapDelete(@, {"mood"})
                 ELSE MapSet(@, "mood", Q)]
       ELSE IF edit = "add"
         THEN snapshot' = [snapshot EXCEPT !.list = Append(@, OwnObject),
                                           !.at = Append(@, 0)]
         ELSE /\ snapshot.list # <<>>
              /\ IF edit = "remove"
                   THEN snapshot' = [snapshot EXCEPT !.list = Tail(@), !.at = Tail(@)]
                   ELSE snapshot' = [snapshot EXCEPT !.list[1] = OwnObject, !.at[1] = 0]
  /\ last' = Call("caller", edit, 0, FALSE)
  /\ UNCHANGED <<engineVars, schedulerVars, bridgeVars, generatorVars>>

\* the caller assigns a field of entry i of the list it holds: the note of an
\* event, the address of a message.  The entry is an object; if it is a
\* stored one, the stored list shows the assignment.
callerSetsField(i) ==
  /\ Counted
  /\ snapshot.of \in {"schedule", "messages"}
  /\ i \in 1..Len(snapshot.list)
  /\ IF snapshot.of = "schedule"
       THEN /\ snapshot' = [snapshot EXCEPT !.list[i].note = 127]
            /\ scheduledNotes' =
                 IF snapshot.at[i] = 0 THEN scheduledNotes
                 ELSE [scheduledNotes EXCEPT ![snapshot.at[i]].note = 127]
            /\ UNCHANGED bridge
       ELSE /\ snapshot' = [snapshot EXCEPT !.list[i].address = "/else"]
            /\ bridge' =
                 IF snapshot.at[i] = 0 THEN bridge
                 ELSE [bridge EXCEPT !.messageLog[snapshot.at[i]].address = "/else"]
            /\ UNCHANGED scheduledNotes
  /\ last' = Call("caller", "field", 0, FALSE)
  /\ UNCHANGED <<engineVars, bpm, beatDurationMs, nextBeatIndex, trail, delivered,
                 generatorVars>>

\* engine, scheduler and bridge with a caller of their accessors
SnapshotNext ==
  \/ \E p \in PARAMETERS, v \in OverrideArgs : setOverride(p, v)
  \/ \E n \in {60, 64}, t \in {0, 250} : scheduleNote(n, t * PerMs, {}, {})
  \/ quantizeAll("")
  \/ clear
  \/ connect
  \/ \E v \in {FloatV, IntegerV} : send("mood", v)
  \/ disconnect
  \/ getStateCall
  \/ getScheduleCall
  \/ \E c \in CountArgs : getRecentMessagesCall(c)
  \/ \E e \in Edits : callerEdits(e)
  \/ \E i \in 1..MaxEvents : callerSetsField(i)

(***************************************************************************)
(* Generator.  A 32-bit integer is the pair <<hi, lo>> of its 16-bit       *)
(* halves, so that no intermediate value leaves the range of the checker's *)
(* integers; the arithmetic is that of Math.imul, |, ^ and >>>.            *)
(***************************************************************************)
\* 2^16
HALF == 65536

\* the 16-bit xor and or of a and b, bit by bit from the low end
RECURSIVE Xor16(_, _, _)
Xor16(a, b, bits) ==
  IF bits = 0 THEN 0
  ELSE ((a + b) % 2) + 2 * Xor16(a \div 2, b \div 2, bits - 1)

RECURSIVE Or16(_, _, _)
Or16(a, b, bits) ==
  IF bits = 0 THEN 0
  ELSE (IF (a % 2) + (b % 2) > 0 THEN 1 ELSE 0) + 2 * Or16(a \div 2, b \div 2, bits - 1)

\* x | 0 for an integer x
ToInt32(x) == <<(x \div HALF) % HALF, x % HALF>>

\* a ^ b
Xor32(a, b) == <<Xor16(a[1], b[1], 16), Xor16(a[2], b[2], 16)>>

\* k | a for a small constant k
OrLow(k, a) == <<a[1], Or16(k, a[2], 16)>>

\* (a + b) | 0
Add32(a, b) ==
  <<(a[1] + b[1] + ((a[2] + b[2]) \div HALF)) % HALF, (a[2] + b[2]) % HALF>>

\* 2^k
RECURSIVE Pow2(_)
Pow2(k) == IF k = 0 THEN 1 ELSE 2 * Pow2(k - 1)

\* a >>> k, for 0 < k < 16
Shr32(a, k) ==
  <<a[1] \div Pow2(k), (a[2] \div Pow2(k)) + (a[1] % Pow2(k)) * Pow2(16 - k)>>

\* byte i (0 the lowest) of a
Byte(a, i) ==
  IF i = 0 THEN a[2] % 256
  ELSE IF i = 1 THEN a[2] \div 256
  ELSE IF i = 2 THEN a[1] % 256
  ELSE a[1] \div 256

\* the sum of the byte products of weight 256^k
Column(a, b, k) ==
  IF k = 0 THEN Byte(a, 0) * Byte(b, 0)
  ELSE IF k = 1 THEN Byte(a, 0) * Byte(b, 1) + Byte(a, 1) * Byte(b, 0)
  ELSE IF k = 2 THEN Byte(a, 0) * Byte(b, 2) + Byte(a, 1) * Byte(b, 1)
                       + Byte(a, 2) * Byte(b, 0)
  ELSE Byte(a, 0) * Byte(b, 3) + Byte(a, 1) * Byte(b, 2)
         + Byte(a, 2) * Byte(b, 1) + Byte(a, 3) * Byte(b, 0)

\* Math.imul(a, b): the low 32 bits of the product
Imul(a, b) ==
  <<(((Column(a, b, 0) + (Column(a, b, 1) % 256) * 256) \div HALF)
       + (Column(a, b, 1) \div 256) + Column(a, b, 2)
       + (Column(a, b, 3) % 256) * 256) % HALF,
    (Column(a, b, 0) + (Column(a, b, 1) % 256) * 256) % HALF>>

\* the increment of mulberry32, 0x6d2b79f5
INCREMENT == <<27947, 31221>>

seededRandomShared(seed) ==
  IF 1 \in DOMAIN rngs THEN rngs[1].s ELSE ToInt32(seed)

\* seededRandom(seed): the state `s` of the closure it returns
seededRandom(seed) == ToInt32(seed)

\* the state of the closure after a call: s = (s + 0x6d2b79f5) | 0
Advanced(s) == Add32(s, INCREMENT)

\* t = Math.imul(s ^ (s >>> 15), 1 | s)
Mixed1(s) == Imul(Xor32(s, Shr32(s, 15)), OrLow(1, s))

\* t = (t + Math.imul(t ^ (t >>> 7), 61 | t)) ^ t
Mixed2(t) == Xor32(Add32(t, Imul(Xor32(t, Shr32(t, 7)), OrLow(61, t))), t)

\* what a call returns, as the numerator of a fraction of 2^32, from the
\* state the call has advanced to: (t ^ (t >>> 14)) >>> 0
Output(s) == Xor32(Mixed2(Mixed1(s)), Shr32(Mixed2(Mixed1(s)), 14))

\* Math.floor(rand() * n) for the output u / 2^32
Scaled(u, n) == (u[1] * n + ((u[2] * n) \div HALF)) \div HALF

\* SCALES: the semitone offsets of each scale from the root
SCALES ==
  [pentatonic |-> <<0, 2, 4, 7, 9>>,
   minor_pentatonic |-> <<0, 3, 5, 7, 10>>,
   chromatic |-> <<0, 1, 2, 3, 4, 5, 6, 7, 8, 9, 10, 11>>,
   whole_tone |-> <<0, 2, 4, 6, 8, 10>>,
   major |-> <<0, 2, 4, 5, 7, 9, 11>>,
   minor |-> <<0, 2, 3, 5, 7, 8, 10>>,
   dorian |-> <<0, 2, 3, 5, 7, 9, 10>>,
   mixolydian |-> <<0, 2, 4, 5, 7, 9, 10>>,
   blues |-> <<0, 3, 5, 6, 7, 10>>,
   harmonic_minor |-> <<0, 2, 3, 5, 7, 8, 11>>]

\* getScale throws: the name is no scale
ScaleUnknown(scaleName) == scaleName \notin DOMAIN SCALES

\* getScale(scaleName), for a known scale
getScale(scaleName) == SCALES[scaleName]

\* note >= 0 && note <= 127
InMidiRange(note) == note >= 0 /\ note <= 127

\* the notes the two loops of generateSequence go through, in their order
PoolCandidates(intervals, rootNote, octaveRange) ==
  [i \in 1..(octaveRange * Len(intervals)) |->
     rootNote + ((i - 1) \div Len(intervals)) * 12
       + intervals[((i - 1) % Len(intervals)) + 1]]

\* mutant of notePool: no candidate is discarded
notePoolUnfiltered(intervals, rootNote, octaveRange) ==
  PoolCandidates(intervals, rootNote, octaveRange)

\* notePool: the candidates that are MIDI notes
notePool(intervals, rootNote, octaveRange) ==
  SelectSeq(PoolCandidates(intervals, rootNote, octaveRange), InMidiRange)

\* the closing loop of generateSequence: n notes drawn from the pool by a
\* closure in state s
RECURSIVE Drawn(_, _, _)
Drawn(pool, s, n) ==
  IF n = 0 THEN <<>>
  ELSE <<pool[Scaled(Output(Advanced(s)), Len(pool)) + 1]>>
         \o Drawn(pool, Advanced(s), n - 1)

\* what a generateSequence call returns, or that it threw
Thrown == [threw |-> TRUE, notes |-> <<>>]

Returned(notes) == [threw |-> FALSE, notes |-> notes]

\* generateSequence(length, scaleName, seed, rootNote, octaveRange); an
\* omitted argument is {}
Generated(length, scaleName, seed, rootNote, octaveRange) ==
  IF length < 1 \/ length > 256 THEN Thrown
  ELSE IF ScaleUnknown(scaleName) THEN Thrown
  ELSE LET pool == notePool(getScale(scaleName), OrDefault(rootNote, 60),
                            OrDefault(octaveRange, 2))
       IN  IF Len(pool) = 0 THEN Thrown
           ELSE Returned(Drawn(pool, seededRandom(OrDefault(seed, 42)), length))

\* mutant of clampMidi: the lower end is not clamped
clampMidiAbove(note) == Min(127, note)

\* clampMidi(note), for an integer note
clampMidi(note) == Max(0, Min(127, note))

\* mutant of Expansion: the last note has no next note and is its own
ExpansionWithoutWrap(current) ==
  [j \in 1..(3 * Len(current)) |->
     LET note == current[((j - 1) \div 3) + 1]
         next == current[Min(((j - 1) \div 3) + 2, Len(current))]
     IN  IF (j - 1) % 3 = 1 THEN clampMidi(note + ((next - note) \div 2))
         ELSE note]

\* mutant of Expansion: the motif is [note, midNote]
ExpansionInPairs(current) ==
  [j \in 1..(2 * Len(current)) |->
     LET note == current[((j - 1) \div 2) + 1]
         next == current[((((j - 1) \div 2) + 1) % Len(current)) + 1]
     IN  IF (j - 1) % 2 = 1 THEN clampMidi(note + ((next - note) \div 2))
         ELSE note]

\* mutant of Expansion: midNote is note + floor((next + note) / 2), unclamped
ExpansionSummed(current) ==
  [j \in 1..(3 * Len(current)) |->
     LET note == current[((j - 1) \div 3) + 1]
         next == current[((((j - 1) \div 3) + 1) % Len(current)) + 1]
     IN  IF (j - 1) % 3 = 1 THEN note + ((next + note) \div 2)
         ELSE note]

\* one pass of applyRecursion: every note becomes [note, midNote, note]
Expansion(current) ==
  [j \in 1..(3 * Len(current)) |->
     LET note == current[((j - 1) \div 3) + 1]
         next == current[((((j - 1) \div 3) + 1) % Len(current)) + 1]
     IN  IF (j - 1) % 3 = 1 THEN clampMidi(note + ((next - note) \div 2))
         ELSE note]

\* the loop of applyRecursion, for depth >= 0
RECURSIVE Recursed(_, _)
Recursed(sequence, depth) ==
  IF depth = 0 THEN sequence ELSE Recursed(Expansion(sequence), depth - 1)

\* transpose(sequence, semitones)
transpose(sequence, semitones) ==
  [i \in 1..Len(sequence) |-> clampMidi(sequence[i] + semitones)]

\* the arguments of the generator functions
Handles == {1, 2}

SeedValues == {42, 43}

\* <<length, scaleName, seed, rootNote, octaveRange>>: the defaults, another
\* seed, a length of 0, an unknown scale, a root above every MIDI note, a
\* length of 257, a root whose second octave leaves the MIDI range, and one
\* note over three octaves from a root below every MIDI note
GenerateArgs ==
  {<<2, "pentatonic", {}, {}, {}>>,
   <<2, "pentatonic", {43}, {}, {}>>,
   <<0, "pentatonic", {}, {}, {}>>,
   <<2, "lydian", {}, {}, {}>>,
   <<2, "pentatonic", {}, {128}, {}>>,
   <<257, "pentatonic", {}, {}, {}>>,
   <<3, "major", {}, {120}, {2}>>,
   <<1, "blues", {}, {-5}, {3}>>}

\* generateSequence over GenerateArgs
Sequences ==
  [a \in GenerateArgs |-> Generated(a[1], a[2], a[3], a[4], a[5])]

\* `sequence` arguments: no note, two notes, the two extreme notes of MIDI
\* with a third, two integers that are no MIDI notes, and one
SequenceArgs == {<<>>, <<60, 64>>, <<0, 127, 64>>, <<-3, 130>>, <<-3>>}

DepthArgs == -1..MaxDepth

\* `sequence` and `semitones` arguments of transpose
TransposeArgs == {<<>>, <<60, 64, 67>>, <<125, 126, 127>>, <<2, 1, 0>>}

SemitoneArgs == {-12, -5, 5, 7}

\* no closure made, no sequence generated, nothing expanded
GeneratorInit ==
  /\ rngs = <<>>
  /\ results = <<>>
  /\ expanded = [sequence |-> <<>>, depth |-> 0, notes |-> <<>>]
  /\ transposed = [sequence |-> <<>>, semitones |-> 0, notes |-> <<>>]

\* rand = seededRandom(seed), kept under handle h
makeRandom(h, seed) ==
  /\ Counted
  /\ rngs' = MapSet(rngs, h, [seed |-> seed, s |-> seededRandom(seed), values |-> <<>>])
  /\ last' = Call("seededRandom", "", 0, FALSE)
  /\ UNCHANGED <<results, expanded, transposed, engineVars, schedulerVars, bridgeVars, snapshot>>

\* rand(), for the closure under handle h; `values` keeps what it returned
callRandom(h) ==
  /\ Counted
  /\ h \in DOMAIN rngs
  /\ \E s \in {Advanced(rngs[h].s)} :
       rngs' = [rngs EXCEPT ![h] =
                  [@ EXCEPT !.s = s, !.values = Append(@, Output(s))]]
  /\ last' = Call("rand", "", 0, FALSE)
  /\ UNCHANGED <<results, expanded, transposed, engineVars, schedulerVars, bridgeVars, snapshot>>

\* a generateSequence call, its arguments and result kept under slot k
generateSequence(k, length, scaleName, seed, rootNote, octaveRange) ==
  /\ Counted
  /\ \E args \in {<<length, scaleName, seed, rootNote, octaveRange>>} :
       /\ results' = MapSet(results, k, [args |-> args, out |-> Sequences[args]])
       /\ last' = Call("generateSequence", "", 0, Sequences[args].threw)
  /\ UNCHANGED <<rngs, expanded, transposed, engineVars, schedulerVars, bridgeVars, snapshot>>

applyRecursion(sequence, depth) ==
  /\ Counted
  /\ IF depth < 0
       THEN /\ expanded' = [sequence |-> sequence, depth |-> depth, notes |-> <<>>]
            /\ last' = Call("applyRecursion", "", 0, TRUE)
       ELSE /\ expanded' = [sequence |-> sequence, depth |-> depth,
                            notes |-> Recursed(sequence, depth)]
            /\ last' = Call("applyRecursion", "", 0, FALSE)
  /\ UNCHANGED <<rngs, results, transposed, engineVars, schedulerVars, bridgeVars, snapshot>>

transposeCall(sequence, semitones) ==
  /\ Counted
  /\ transposed' = [sequence |-> sequence, semitones |-> semitones,
                    notes |-> transpose(sequence, semitones)]
  /\ last' = Call("transpose", "", 0, FALSE)
  /\ UNCHANGED <<rngs, results, expanded, engineVars, schedulerVars, bridgeVars, snapshot>>

\* generation and expansion under any calls
GeneratorNext ==
  \/ \E h \in Handles, seed \in SeedValues : makeRandom(h, seed)
  \/ \E h \in Handles : callRandom(h)
  \/ \E k \in Handles, a \in GenerateArgs :
       generateSequence(k, a[1], a[2], a[3], a[4], a[5])
  \/ \E sq \in SequenceArgs, d \in DepthArgs : applyRecursion(sq, d)

\* the transformations of a sequence under any calls
TransformNext ==
  \/ \E sq \in SequenceArgs, d \in DepthArgs : applyRecursion(sq, d)
  \/ \E sq \in TransposeArgs, k \in SemitoneArgs : transposeCall(sq, k)

(***************************************************************************)
(* Specifications                                                          *)
(***************************************************************************)
Init ==
  /\ EngineInit
  /\ snapshot = NoSnapshot
  /\ SchedulerInit
  /\ BridgeInit
  /\ GeneratorInit
  /\ last = Call("constructor", "", 0, FALSE)
  /\ steps = 0

\* the same, with a bridge constructed from any options
BridgeSpecInit ==
  /\ EngineInit
  /\ snapshot = NoSnapshot
  /\ SchedulerInit
  /\ BridgeInitWith
  /\ GeneratorInit
  /\ last = Call("constructor", "", 0, FALSE)
  /\ steps = 0

Spec == Init /\ [][Next]_vars

FutureSpec == Init /\ [][FutureNext]_vars

SchedulerSpec == Init /\ [][SchedulerNext]_vars

BridgeSpec == BridgeSpecInit /\ [][BridgeNext]_vars

GeneratorSpec == Init /\ [][GeneratorNext]_vars

TransformSpec == Init /\ [][TransformNext]_vars

SnapshotSpec == Init /\ [][SnapshotNext]_vars

(***************************************************************************)
(* Properties of the scheduler                                             *)
(***************************************************************************)
\* C1: after any sequence of scheduleNote, scheduleAtBeat, quantizeAll, setBPM
\* and clear calls, failing calls included, the list getSchedule() returns is
\* non-decreasing in time.
C1_ScheduleSorted ==
  \A i \in 1..(Len(getSchedule) - 1) : getSchedule[i].time <= getSchedule[i + 1].time

\* C1 witness: two events at different times, after a quantizeAll that
\* rewrote them.
C1_Witness ==
  /\ last.op = "quantizeAll" /\ ~last.threw
  /\ Len(scheduledNotes) >= 2
  /\ scheduledNotes[1].time < scheduledNotes[Len(scheduledNotes)].time

(***************************************************************************)
(* Properties of the consensus engine                                      *)
(***************************************************************************)
\* C2: while a parameter has a non-null override v (from setOverride(p, v)
\* until the next setOverride(p, .), clearOverrides() or reset()), state[p]
\* equals v after every operation, whatever consensus is applied.
C2_OverridePrecedence ==
  \A p \in DOMAIN overrides.vals : state[p] = overrides.vals[p]

\* C2 witness: applyConsensus has just run with a consensus that holds a
\* different value for an overridden parameter.
C2_Witness ==
  /\ last.op = "applyConsensus"
  /\ \E p \in DOMAIN overrides.vals \cap DOMAIN consensus.m :
       consensus.m[p] # overrides.vals[p]

\* C3: overrides.active is true if and only if at least one recognized
\* parameter has a non-null override.
C3_ActiveIffOverride == overrides.active <=> (DOMAIN overrides.vals # {})

\* the parameters the claim expects in the result of calculateConsensus(now):
\* those some stored input defines with an age of at most the decay window
ExpectedParams(now) ==
  {p \in PARAMETERS :
     \E u \in DOMAIN inputs :
       /\ p \in DOMAIN inputs[u].values.m
       /\ now - inputs[u].timestamp <= INPUT_DECAY_WINDOW_MS}

\* C4: calculateConsensus(now) returns null exactly when no recognized
\* parameter has an input that defines it and is at most one decay window old
\* at `now`, and otherwise the mapping of exactly the parameters that have one.
C4_TwoLevelNull ==
  [][\A now \in NowArgs : \A c \in ClockReads(now) :
       calculateConsensus(now, c) =>
         /\ ~last'.threw
         /\ consensus'.k = (IF ExpectedParams(now) = {} THEN "null" ELSE "object")
         /\ DOMAIN consensus'.m = ExpectedParams(now)]_vars

\* C5: while the input table is empty, calculateConsensus returns null,
\* applyConsensus(null) leaves the state unchanged and pruneOldInputs removes
\* nothing, so a driver tick leaves the state as it was.
C5_AbsentInputs ==
  [][DOMAIN inputs = {} =>
       /\ \A now \in NowArgs : \A c \in ClockReads(now) :
            /\ calculateConsensus(now, c) =>
                 ~last'.threw /\ consensus'.k = "null" /\ state' = state
            /\ pruneOldInputs(now, c) =>
                 last'.ret = 0 /\ inputs' = inputs /\ state' = state
       /\ (applyConsensus /\ consensus.k = "null") => state' = state]_vars

\* C5 witness: applyConsensus(null) has just run on an engine with no input
\* and a state that is not the initial one.
C5_Witness ==
  /\ last.op = "applyConsensus" /\ consensus.k = "null" /\ DOMAIN inputs = {}
  /\ \E p \in PARAMETERS : state[p] # DefaultValue

\* the table without the inputs older than the decay window at `now`
WithoutStale(now) ==
  MapDelete(inputs,
            {u \in DOMAIN inputs : now - inputs[u].timestamp > INPUT_DECAY_WINDOW_MS})

\* C6: an input older than the decay window contributes nothing:
\* calculateConsensus(now) does what it would do with every such input removed,
\* and what it would do after pruneOldInputs(now).
C6_DecayBoundary ==
  \A now \in Instants :
    /\ ConsensusResult(inputs, now) = ConsensusResult(WithoutStale(now), now)
    /\ ConsensusResult(inputs, now)
         = ConsensusResult(MapDelete(inputs, Expired(now)), now)

\* x lies strictly between a and b
StrictlyBetween(x, a, b) == (a < x /\ x < b) \/ (b < x /\ x < a)

\* the parameters an applyConsensus call merges
Merged == {p \in DOMAIN consensus.m : ~Overridden(p)}

C8_LatestWins ==
  [][/\ getInputCount' = Cardinality({u \in Users : u \in DOMAIN inputs'})
     /\ \A u \in UserArgs, v \in ValuesArgs, t \in StampArgs : \A c \in ClockReads(t) :
          (recordInput(u, v, t, c) /\ ~recordInputIgnores(u, v)) =>
            /\ inputs'[u] = [timestamp |-> t, values |-> v]
            /\ \A w \in DOMAIN inputs \ {u} : w \in DOMAIN inputs' /\ inputs'[w] = inputs[w]
     /\ last'.op # "recordInput" =>
          \A w \in DOMAIN inputs' : w \in DOMAIN inputs /\ inputs'[w] = inputs[w]]_vars

\* a malformed payload: a falsy participant id, or values that are no mapping
Malformed(userId, values) == userId = "" \/ values.kind # "object"

\* C9: a recordInput call with a falsy participantId or with values that are
\* not a mapping (a string, a number, absent, null) raises no error and leaves
\* the input table, the state and the overrides unchanged.
C9_MalformedAbsorbed ==
  [][\A u \in UserArgs, v \in ValuesArgs, t \in StampArgs : \A c \in ClockReads(t) :
       (recordInput(u, v, t, c) /\ Malformed(u, v)) =>
         ~last'.threw /\ UNCHANGED <<inputs, state, overrides>>]_vars

\* the inputs the claim expects pruneOldInputs(now) to remove
OlderThanTwoWindows(now) ==
  {u \in DOMAIN inputs : now - inputs[u].timestamp > 2 * INPUT_DECAY_WINDOW_MS}

\* C10: pruneOldInputs(now) removes exactly the inputs whose age at `now` is
\* strictly greater than twice the decay window, keeps every other input as it
\* was, and returns the number removed, the drop of getInputCount().
C10_PruneExact ==
  [][\A now \in NowArgs : \A c \in ClockReads(now) :
       pruneOldInputs(now, c) =>
         /\ DOMAIN inputs' = DOMAIN inputs \ OlderThanTwoWindows(now)
         /\ \A u \in DOMAIN inputs' : inputs'[u] = inputs[u]
         /\ last'.ret = Cardinality(OlderThanTwoWindows(now))
         /\ last'.ret = getInputCount - getInputCount']_vars

(***************************************************************************)
(* Properties of the bridge                                                *)
(***************************************************************************)
\* the edges of the lifecycle as the claim lists them
LifecycleEdges ==
  { <<"DISCONNECTED", "CONNECTING">>, <<"CONNECTING", "CONNECTED">>,
    <<"CONNECTING", "ERROR">>, <<"CONNECTED", "DISCONNECTED">>,
    <<"ERROR", "DISCONNECTED">> }

\* the states the bridge goes through in a call: the one before it, then
\* every one the call assigns
StatesThrough == <<bridge.state>> \o trail'

\* every change of state in a call follows one of the edges
ChangesAlong(edges) ==
  /\ \A i \in 1..(Len(StatesThrough) - 1) :
       \/ StatesThrough[i] = StatesThrough[i + 1]
       \/ <<StatesThrough[i], StatesThrough[i + 1]>> \in edges
  /\ bridge'.state = StatesThrough[Len(StatesThrough)]

\* C11 as claimed: the bridge starts DISCONNECTED, its state changes only
\* along the five edges of the lifecycle, and CONNECTING is never the state
\* between two calls.
C11_Lifecycle ==
  [][/\ steps = 0 => bridge.state = "DISCONNECTED"
     /\ ChangesAlong(LifecycleEdges)
     /\ bridge'.state # "CONNECTING"]_vars

\* C11 as amended: the same, with the edge ERROR -> CONNECTING that a
\* connect() called again after a failed one takes.
C11_LifecycleWithRetry ==
  [][/\ steps = 0 => bridge.state = "DISCONNECTED"
     /\ ChangesAlong(LifecycleEdges \cup { <<"ERROR", "CONNECTING">> })
     /\ bridge'.state # "CONNECTING"]_vars

\* C11 witness: a bridge that was connected, sent a message and was
\* disconnected has just been connected again.
C11_Witness ==
  /\ last.op = "connect" /\ trail = <<"CONNECTING", "CONNECTED">>
  /\ bridge.messageCount > 0

C13_SendGating ==
  [][bridge.state # "CONNECTED" =>
       /\ \A p \in SendParamArgs, v \in SendValueArgs :
            send(p, v) =>
              /\ last'.ret = -1 /\ ~last'.threw /\ delivered' = delivered
              /\ bridge'.messageCount = bridge.messageCount
              /\ bridge'.messageLog = bridge.messageLog
       /\ \A b \in BundleArgs :
            sendBundle(b) =>
              /\ last'.ret = -1 /\ ~last'.threw /\ delivered' = delivered
              /\ bridge'.messageCount = bridge.messageCount
              /\ bridge'.messageLog = bridge.messageLog]_vars

\* C13 witness: a send has returned null on a bridge that was disconnected
\* after it had connected and sent.
C13_Witness ==
  /\ last.op = "send" /\ last.ret = -1
  /\ bridge.state = "DISCONNECTED" /\ bridge.messageCount > 0

\* the number of entries of a mapping whose value is a number
NumbersIn(entries) ==
  Cardinality({i \in 1..Len(entries) : entries[i][2].kind = "number"})

\* C14: messageCount starts at 0, grows by one with each send that returns a
\* message and by the number of numeric entries with each sendBundle that
\* returns a bundle, and no other call (disconnect and connect included)
\* changes it.
C14_CumulativeCount ==
  [][/\ steps = 0 => bridge.messageCount = 0
     /\ (last'.op = "send" /\ last'.ret = 1) =>
          bridge'.messageCount = bridge.messageCount + 1
     /\ \A b \in BundleArgs :
          (sendBundle(b) /\ last'.ret >= 0 /\ ~last'.threw) =>
            bridge'.messageCount = bridge.messageCount + NumbersIn(b)
     /\ ~(last'.op \in {"send", "sendBundle"} /\ last'.ret >= 0 /\ ~last'.threw) =>
          bridge'.messageCount = bridge.messageCount]_vars

\* C14 witness: a bundle with one numeric entry among two has been counted
\* once, after an earlier send.
C14_Witness ==
  /\ last.op = "sendBundle" /\ last.ret = 1 /\ bridge.messageCount = 2

\* C15: the number of entries in the log never exceeds a fixed bound; the
\* only size the bridge names is the 10 of getRecentMessages.
C15_LogBounded == Len(bridge.messageLog) <= DEFAULT_RECENT_COUNT

\* C15, what the code does instead: a send or sendBundle that returns adds
\* every message it formats to the log and drops none.
C15_LogGrows ==
  [][(last'.op \in {"send", "sendBundle"} /\ last'.ret >= 0 /\ ~last'.threw) =>
       /\ Len(bridge'.messageLog) = Len(bridge.messageLog) + last'.ret
       /\ SubSeq(bridge'.messageLog, 1, Len(bridge.messageLog)) = bridge.messageLog]_vars

\* C16: disconnect() leaves the state DISCONNECTED and the log empty, and
\* leaves messageCount, host, port and prefix unchanged.
C16_Disconnect ==
  [][disconnect =>
       /\ bridge'.state = "DISCONNECTED"
       /\ bridge'.messageLog = <<>>
       /\ getRecentMessages(0)' = <<>>
       /\ bridge'.messageCount = bridge.messageCount
       /\ bridge'.host = bridge.host
       /\ bridge'.port = bridge.port
       /\ bridge'.prefix = bridge.prefix]_vars

\* C16 witness: disconnect() has emptied a log that held several messages.
C16_Witness ==
  /\ last.op = "disconnect" /\ bridge.messageCount > 1 /\ bridge.messageLog = <<>>

(***************************************************************************)
(* Programmer errors                                                       *)
(***************************************************************************)
\* a call has raised an error and left the event list, the BPM, the beat
\* cursor, messageCount and the log as they were
FailedClean ==
  /\ last'.threw
  /\ UNCHANGED <<scheduledNotes, bpm, beatDurationMs, nextBeatIndex>>
  /\ bridge'.messageCount = bridge.messageCount
  /\ bridge'.messageLog = bridge.messageLog

\* a subdivision argument that names no subdivision ("" is an omitted one)
UnknownName(s) == s # "" /\ s \notin DOMAIN SUBDIVISIONS

\* the erroneous calls of the claim, quantizeAll taken on the schedules
\* `held` tells: each raises an error and leaves the state as it was
ErroneousCallsFail(held(_)) ==
  /\ last'.op = "scheduleNote" =>
       \A n \in NoteArgs, t \in TimeArgs, d \in DurationArgs, v \in VelocityArgs :
         (/\ n < 0 \/ n > 127 \/ t < 0
          /\ scheduleNote(n, t * PerMs, IF d = {} THEN d ELSE {Given(d) * PerMs}, v))
           => FailedClean
  /\ last'.op = "scheduleAtBeat" =>
       \A n \in NoteArgs, b \in BeatArgs, s \in SubdivisionArgs, v \in VelocityArgs :
         ((b < 1 \/ UnknownName(s)) /\ scheduleAtBeat(n, b, s, v)) => FailedClean
  /\ last'.op = "quantizeAll" =>
       \A s \in SubdivisionArgs :
         (UnknownName(s) /\ held(scheduledNotes) /\ quantizeAll(s)) => FailedClean
  /\ last'.op = "setBPM" =>
       \A b \in BpmArgs : ((b < 20 \/ b > 300) /\ setBPM(b)) => FailedClean
  /\ last'.op = "send" =>
       \A p \in SendParamArgs, v \in SendValueArgs :
         (/\ bridge.state = "CONNECTED"
          /\ v.kind \notin {"number", "string", "boolean"}
          /\ send(p, v)) => FailedClean

AnySchedule(events) == TRUE

NonEmptySchedule(events) == events # <<>>

\* C17: scheduleNote with a note outside [0,127] or a negative time,
\* scheduleAtBeat with beat < 1 or an unknown subdivision, quantizeAll with an
\* unknown subdivision, setBPM outside [20,300] and send on a CONNECTED bridge
\* with an unsupported value each raise an error and leave the event list, the
\* BPM, the beat cursor, messageCount and the log as before.
C17_FailWithoutMutation == [][ErroneousCallsFail(AnySchedule)]_vars

\* C17 with quantizeAll taken only on a schedule that holds an event
C17_FailWithoutMutation_NonEmpty == [][ErroneousCallsFail(NonEmptySchedule)]_vars

(***************************************************************************)
(* Quantization                                                            *)
(***************************************************************************)
\* times to quantize, in milliseconds: on a grid line, half way between two,
\* and off both
QuantizeTimeArgs == {0, 83, 250, 500, 1001}

\* a subdivision argument as quantize reads it: subdivision || 'quarter'
OrQuarter(s) == IF s = "" THEN "quarter" ELSE s

\* C18: at every BPM the scheduler can have (after its construction and after
\* every setBPM), quantize(quantize(t, s), s) = quantize(t, s) for every
\* time t >= 0 and valid subdivision s, and a second
\* quantizeAll(s) leaves the schedule the first quantizeAll(s) produced
\* unchanged.
C18_QuantizeIdempotent ==
  /\ last.op \in {"constructor", "setBPM"} =>
       \A t \in QuantizeTimeArgs, s \in DOMAIN SUBDIVISIONS :
         quantize(quantize(t * PerMs, s), s) = quantize(t * PerMs, s)
  /\ (last.op = "quantizeAll" /\ ~last.threw) =>
       SortByTime(QuantizedEvents(OrQuarter(last.arg))) = scheduledNotes

\* C18 witness: quantizeAll('triplet_eighth') has moved an event off the
\* whole millisecond it was scheduled at.
C18_Witness ==
  /\ last.op = "quantizeAll" /\ ~last.threw /\ last.arg = "triplet_eighth"
  /\ \E i \in 1..Len(scheduledNotes) : scheduledNotes[i].time % PerMs # 0

\* C27: every stored event has a note in [0,127], a time >= 0, a duration
\* > 0 and a velocity in [0,127], after any scheduleNote, scheduleAtBeat and
\* quantizeAll calls.
C27_EventsWellFormed ==
  \A i \in 1..Len(getSchedule) :
    /\ getSchedule[i].note >= 0 /\ getSchedule[i].note <= 127
    /\ getSchedule[i].time >= 0
    /\ getSchedule[i].duration > 0
    /\ getSchedule[i].velocity >= 0 /\ getSchedule[i].velocity <= 127

\* C27 without the duration: the fields scheduleNote validates or defaults
C27_EventsWellFormed_NoteAndTime ==
  \A i \in 1..Len(getSchedule) :
    /\ getSchedule[i].note >= 0 /\ getSchedule[i].note <= 127
    /\ getSchedule[i].time >= 0

\* the ways of rearranging n events
Rearrangements(n) ==
  {f \in [1..n -> 1..n] : \A i, j \in 1..n : f[i] = f[j] => i = j}

\* C28: a quantizeAll(s) that returns keeps the number of events; the event
\* stored at position i before the call is stored after it with the same
\* note, duration and velocity and with the time quantize(time, s); events
\* whose new times are equal are in the order they were in before, and the
\* list is sorted by time.  BPM, beat duration and beat cursor are unchanged.
C28_QuantizeAllFrame ==
  [][(last'.op = "quantizeAll" /\ ~last'.threw) =>
       /\ Len(getSchedule') = Len(getSchedule)
       /\ \E f \in Rearrangements(Len(getSchedule)) :
            /\ \A i \in 1..Len(getSchedule) :
                 /\ getSchedule'[f[i]].note = getSchedule[i].note
                 /\ getSchedule'[f[i]].duration = getSchedule[i].duration
                 /\ getSchedule'[f[i]].velocity = getSchedule[i].velocity
                 /\ getSchedule'[f[i]].time =
                      quantize(getSchedule[i].time, OrQuarter(last'.arg))
            /\ \A i, j \in 1..Len(getSchedule) :
                 (i < j /\ getSchedule'[f[i]].time = getSchedule'[f[j]].time)
                   => f[i] < f[j]
       /\ \A i \in 1..(Len(getSchedule') - 1) :
            getSchedule'[i].time <= getSchedule'[i + 1].time
       /\ bpm' = bpm
       /\ beatDurationMs' = beatDurationMs
       /\ nextBeatIndex' = nextBeatIndex]_vars

\* quantizeAll has left two different events on one grid line, one of them
\* with a duration of its own
C28_Witness ==
  /\ last.op = "quantizeAll"
  /\ ~last.threw
  /\ Len(scheduledNotes) >= 2
  /\ scheduledNotes[1].time = scheduledNotes[2].time
  /\ scheduledNotes[1].note # scheduledNotes[2].note
  /\ scheduledNotes[1].duration # scheduledNotes[2].duration

\* C29: a scheduleNote or scheduleAtBeat call that returns stores its event
\* after every stored event whose time is not greater and before every
\* stored event whose time is greater, and leaves the other events in their
\* order: events of equal time are listed in the order they were scheduled.
C29_StableTies ==
  [][(last'.op \in {"scheduleNote", "scheduleAtBeat"} /\ ~last'.threw) =>
       /\ Len(getSchedule') = Len(getSchedule) + 1
       /\ \E p \in 1..Len(getSchedule') :
            /\ \A i \in 1..(p - 1) :
                 /\ getSchedule'[i] = getSchedule[i]
                 /\ getSchedule[i].time <= getSchedule'[p].time
            /\ \A i \in p..Len(getSchedule) :
                 /\ getSchedule'[i + 1] = getSchedule[i]
                 /\ getSchedule[i].time > getSchedule'[p].time]_vars

\* a third event has been scheduled at the time of two stored ones
C29_Witness ==
  /\ last.op \in {"scheduleNote", "scheduleAtBeat"}
  /\ ~last.threw
  /\ Len(scheduledNotes) = 3
  /\ scheduledNotes[1].time = scheduledNotes[3].time
  /\ scheduledNotes[1].note # scheduledNotes[2].note

\* C30: the cursor is 0 after the construction, a resetBeatCounter and a
\* clear; a getNextBeat call returns cursor * beatDuration and moves the
\* cursor by one, so that at constant BPM the k-th call since the cursor was
\* 0 returns (k - 1) * beatDuration and two calls in a row return times one
\* beat apart; scheduleNote, scheduleAtBeat and quantizeAll (and the quantize
\* it calls) leave the cursor alone, getNextBeat and resetBeatCounter leave
\* the stored events alone.
C30_BeatCursor ==
  [][/\ last.op = "constructor" => nextBeatIndex = 0
     /\ last'.op \in {"resetBeatCounter", "clear"} => nextBeatIndex' = 0
     /\ last'.op = "getNextBeat" =>
          /\ last'.ret = nextBeatIndex * beatDurationMs
          /\ nextBeatIndex' = nextBeatIndex + 1
          /\ last.op \in {"constructor", "resetBeatCounter", "clear"} => last'.ret = 0
          /\ last.op = "getNextBeat" => last'.ret = last.ret + beatDurationMs
     /\ last'.op \in {"scheduleNote", "scheduleAtBeat", "quantizeAll"} =>
          nextBeatIndex' = nextBeatIndex
     /\ last'.op \in {"getNextBeat", "resetBeatCounter"} =>
          getSchedule' = getSchedule]_vars

\* the third getNextBeat call in a row has returned the time of two beats
C30_Witness ==
  /\ last.op = "getNextBeat"
  /\ nextBeatIndex = 3
  /\ last.ret = 2 * beatDurationMs

(***************************************************************************)
(* Properties of the accessors                                             *)
(***************************************************************************)
\* what the three accessors return is what they returned before the step
AccessorsUnchanged ==
  /\ getState' = getState
  /\ getSchedule' = getSchedule
  /\ \A c \in CountArgs : getRecentMessages(c)' = getRecentMessages(c)

\* C22: whatever a caller does to a value that getState(), getSchedule() or
\* getRecentMessages() returned (adding, removing or replacing entries,
\* assigning a field of a returned event or message), the three accessors
\* return afterwards what they returned before.
C22_SnapshotsAreCopies ==
  [][last'.op = "caller" => AccessorsUnchanged]_vars

\* C22 for the entries of the returned object or list: adding, removing and
\* replacing entries changes nothing the accessors return
C22_SnapshotsAreCopies_Entries ==
  [][(last'.op = "caller" /\ last'.arg \in Edits) => AccessorsUnchanged]_vars

(***************************************************************************)
(* Properties of the generator                                             *)
(***************************************************************************)

C19_TwoGenerators ==
  /\ DOMAIN rngs = Handles
  /\ rngs[1].seed = rngs[2].seed
  /\ Len(rngs[1].values) > 0
  /\ Len(rngs[2].values) > 0

RECURSIVE Pow3(_)
Pow3(d) == IF d = 0 THEN 1 ELSE 3 * Pow3(d - 1)

\* C20: applyRecursion(seq, d) with d >= 0 returns |seq| * 3^d notes, with
\* d = 0 the notes of seq themselves; with d < 0 it throws.
C20_RecursionGrowth ==
  last.op = "applyRecursion" =>
    IF expanded.depth < 0 THEN last.threw
    ELSE /\ ~last.threw
         /\ Len(expanded.notes) = Len(expanded.sequence) * Pow3(expanded.depth)
         /\ expanded.depth = 0 => expanded.notes = expanded.sequence

\* a sequence of notes has gone through the deepest recursion
C20_Witness ==
  /\ last.op = "applyRecursion"
  /\ ~last.threw
  /\ expanded.depth = MaxDepth
  /\ Len(expanded.sequence) = 3
  /\ Len(expanded.notes) = 3 * Pow3(MaxDepth)

\* the notes of a sequence are all MIDI notes
AllInMidiRange(sequence) ==
  \A i \in DOMAIN sequence : InMidiRange(sequence[i])

\* C21 as stated: every note applyRecursion(seq, d) returns, d >= 0, is in
\* [0,127], whatever integers seq holds.
C21_OutputInRange ==
  (last.op = "applyRecursion" /\ ~last.threw) => AllInMidiRange(expanded.notes)

\* C21, amended: every note applyRecursion(seq, d) returns, d >= 0, is in
\* [0,127] when every note of seq is in [0,127].
C21_OutputInRange_OfMidiNotes ==
  (last.op = "applyRecursion" /\ ~last.threw /\ AllInMidiRange(expanded.sequence))
    => AllInMidiRange(expanded.notes)

\* the extreme notes 0 and 127 have gone through a pass or more
C21_Witness ==
  /\ last.op = "applyRecursion"
  /\ ~last.threw
  /\ expanded.depth >= 1
  /\ expanded.sequence = <<0, 127, 64>>
  /\ \E i \in DOMAIN expanded.notes : expanded.notes[i] = 127
  /\ \E i \in DOMAIN expanded.notes : expanded.notes[i] = 0

\* x clamped into [0,127]
Clamped(x) == IF x < 0 THEN 0 ELSE IF x > 127 THEN 127 ELSE x

\* C24: transpose(seq, k) returns as many notes as seq has, the i-th being
\* seq[i] + k clamped into [0,127]; transpose([125,126,127], 5) is
\* [127,127,127] and transpose([2,1,0], -5) is [0,0,0].
C24_TransposeClamps ==
  last.op = "transpose" =>
    /\ ~last.threw
    /\ Len(transposed.notes) = Len(transposed.sequence)
    /\ \A i \in 1..Len(transposed.sequence) :
         transposed.notes[i] = Clamped(transposed.sequence[i] + transposed.semitones)
    /\ (transposed.sequence = <<125, 126, 127>> /\ transposed.semitones = 5)
         => transposed.notes = <<127, 127, 127>>
    /\ (transposed.sequence = <<2, 1, 0>> /\ transposed.semitones = -5)
         => transposed.notes = <<0, 0, 0>>

\* transpose([2,1,0], -5) has returned
C24_Witness ==
  /\ last.op = "transpose"
  /\ transposed.sequence = <<2, 1, 0>>
  /\ transposed.semitones = -5
  /\ Len(transposed.notes) = 3

(***************************************************************************)
(* Properties of the engine's state                                        *)
(***************************************************************************)

\* C23: the state has exactly one entry per configured parameter in every
\* reachable state, and a call changes a state value only if it is
\* applyConsensus with a non-null consensus, setOverride with a recognized
\* parameter and a non-null value, or reset; every other call (recordInput,
\* removeInput, pruneOldInputs, calculateConsensus, clearOverrides,
\* setOverride(p, null), setOverride of an unrecognized parameter) leaves
\* getState() as it was.
C23_StateOwnership ==
  /\ [](DOMAIN state = PARAMETERS)
  /\ [][getState' # getState =>
          \/ last'.op = "applyConsensus" /\ consensus.k # "null"
          \/ /\ last'.op = "setOverride"
             /\ last'.arg \in PARAMETERS
             /\ last'.arg \in DOMAIN overrides'.vals
          \/ last'.op = "reset"]_vars

\* clearOverrides has left in place a state an override had set
C23_Witness ==
  /\ last.op = "clearOverrides"
  /\ \E p \in PARAMETERS : state[p] # DefaultValue
  /\ overrides = ClearedOverrides

\* C25: after reset() the engine is as a newly constructed one: no input is
\* stored, every parameter's state is 0.5, no parameter has an override and
\* active is false.
C25_ResetIsFresh ==
  last.op = "reset" =>
    /\ ~last.threw
    /\ DOMAIN inputs = {}
    /\ getInputCount = 0
    /\ \A p \in PARAMETERS : getState[p] = DefaultValue
    /\ DOMAIN getState = PARAMETERS
    /\ DOMAIN overrides.vals = {}
    /\ ~overrides.active

\* reset() has returned on an engine whose inputs had given a consensus
C25_Witness ==
  /\ last.op = "reset"
  /\ consensus.k = "object"
  /\ DOMAIN inputs = {}

\* the calls of a driver tick
TickCalls == {"pruneOldInputs", "calculateConsensus", "applyConsensus"}

\* C26: whatever recordInput calls were made, no call of a driver tick
\* (pruneOldInputs, calculateConsensus, applyConsensus) raises an error.
C26_TickCompletes == last.op \in TickCalls => ~last.threw

(***************************************************************************)
(* The claims that fail on timestamp 0 or on a stored null payload, on the *)
(* calls that supply a non-zero time and the tables without null payloads  *)
(***************************************************************************)
\* C4 for a non-zero `now` and a table without null payloads
C4_TwoLevelNull_Supplied ==
  [][\A now \in Instants :
       (/\ last'.op = "calculateConsensus" /\ last'.t = now
        /\ ~ReadThrows(inputs) /\ calculateConsensus(now, 1)) =>
         /\ ~last'.threw
         /\ consensus'.k = (IF ExpectedParams(now) = {} THEN "null" ELSE "object")
         /\ DOMAIN consensus'.m = ExpectedParams(now)]_vars

\* C6 for a table without null payloads
C6_DecayBoundary_NoNull ==
  ~ReadThrows(inputs) =>
    \A now \in Instants :
      /\ ConsensusResult(inputs, now) = ConsensusResult(WithoutStale(now), now)
      /\ ConsensusResult(inputs, now)
           = ConsensusResult(MapDelete(inputs, Expired(now)), now)

\* C8 for a non-zero timestamp
C8_LatestWins_Supplied ==
  [][/\ \A u \in UserArgs, v \in ValuesArgs, t \in StampArgs \ {0} :
          (recordInput(u, v, t, 1) /\ ~recordInputIgnores(u, v)) =>
            /\ inputs'[u] = [timestamp |-> t, values |-> v]
            /\ \A w \in DOMAIN inputs \ {u} : w \in DOMAIN inputs' /\ inputs'[w] = inputs[w]
     /\ last'.op # "recordInput" =>
          \A w \in DOMAIN inputs' : w \in DOMAIN inputs /\ inputs'[w] = inputs[w]]_vars

\* C9 for the payloads other than null
C9_MalformedAbsorbed_NotNull ==
  [][\A u \in UserArgs, v \in ValuesArgs \ {NullV}, t \in StampArgs :
       \A c \in ClockReads(t) :
         (recordInput(u, v, t, c) /\ Malformed(u, v)) =>
           ~last'.threw /\ UNCHANGED <<inputs, state, overrides>>]_vars

\* C10 for a non-zero `now`
C10_PruneExact_Supplied ==
  [][\A now \in Instants :
       pruneOldInputs(now, 1) =>
         /\ DOMAIN inputs' = DOMAIN inputs \ OlderThanTwoWindows(now)
         /\ \A u \in DOMAIN inputs' : inputs'[u] = inputs[u]
         /\ last'.ret = Cardinality(OlderThanTwoWindows(now))
         /\ last'.ret = getInputCount - getInputCount']_vars

\* C26 for tables that hold no null payload: no call of a driver tick raises
\* an error.
C26_TickCompletes_NoNull ==
  (last.op \in TickCalls /\ ~ReadThrows(inputs)) => ~last.threw

(***************************************************************************)
(* Total duration                                                          *)
(***************************************************************************)
\* when the stored event at position i ends
EndOf(i) == getSchedule[i].time + getSchedule[i].duration

\* C31: getTotalDuration() is 0 when the schedule is empty, and otherwise,
\* when every stored duration is positive, no stored event ends (time +
\* duration) later than the value it returns.
C31_TotalDurationCoversEveryEvent ==
  /\ getSchedule = <<>> => getTotalDuration = 0
  /\ (\A i \in 1..Len(getSchedule) : getSchedule[i].duration > 0) =>
       \A i \in 1..Len(getSchedule) : EndOf(i) <= getTotalDuration

\* C31, as far as it holds: 0 when the schedule is empty, and otherwise the
\* end of the event stored last, which no stored event starts after
C31_TotalDurationIsEndOfLast ==
  /\ getSchedule = <<>> => getTotalDuration = 0
  /\ getSchedule # <<>> =>
       /\ getTotalDuration = EndOf(Len(getSchedule))
       /\ \A i \in 1..Len(getSchedule) :
            getSchedule[i].time <= getSchedule[Len(getSchedule)].time

(***************************************************************************)
(* Recent messages                                                         *)
(***************************************************************************)
\* the last n entries of the message log, oldest first
LastEntries(n) ==
  [i \in 1..n |-> bridge.messageLog[Len(bridge.messageLog) - n + i]]

\* the counts a caller asks for: none, fewer than are logged, the default
\* and more
RecentCounts == 0..(DEFAULT_RECENT_COUNT + 1)

\* C32: getRecentMessages(count) returns the last min(count, log length)
\* entries of the message log, oldest first, for every count >= 0 that is
\* given: a count of 0 returns no entry.
C32_RecentMessages ==
  \A count \in RecentCounts :
    getRecentMessages(count) = LastEntries(Min(count, Len(bridge.messageLog)))

\* C32 for the counts of 1 and more
C32_RecentMessages_Positive ==
  \A count \in RecentCounts \ {0} :
    getRecentMessages(count) = LastEntries(Min(count, Len(bridge.messageLog)))

(***************************************************************************)
(* Clearing overrides                                                      *)
(***************************************************************************)
\* the override of parameter p is null
Cleared(p) == p \notin DOMAIN overrides.vals

RECURSIVE MotifsFrom(_, _)
MotifsFrom(c, i) ==
  IF i >= Len(c) THEN <<>>
  ELSE <<c[i + 1],
         Max(0, Min(127, c[i + 1] + ((c[((i + 1) % Len(c)) + 1] - c[i + 1]) \div 2))),
         c[i + 1]>> \o MotifsFrom(c, i + 1)

\* d passes: the pass over what d - 1 passes give
RECURSIVE Passes(_, _)
Passes(c, d) == IF d = 0 THEN c ELSE MotifsFrom(Passes(c, d - 1), 0)

\* C34: one pass of applyRecursion over c, of length m, puts at the output
\* positions 3i, 3i+1, 3i+2 the notes c[i], clamp(c[i] + floor((c[(i+1) mod m]
\* - c[i]) / 2)), c[i], read from the input of the pass and wrapping the
\* last note to the first; applyRecursion(seq, d), d >= 0, returns seq after
\* d such passes.
C34_Motif ==
  (last.op = "applyRecursion" /\ ~last.threw) =>
    expanded.notes = Passes(expanded.sequence, expanded.depth)

\* C34 witness: two passes over [60, 64]; the last motif of the second pass
\* is that of 64 wrapping to the first note of the first pass's output
C34_Witness ==
  /\ last.op = "applyRecursion" /\ ~last.threw
  /\ expanded.sequence = <<60, 64>>
  /\ expanded.depth = 2
  /\ SubSeq(expanded.notes, 1, 6) = <<60, 61, 60, 62, 61, 62>>
  /\ SubSeq(expanded.notes, 16, 18) = <<64, 62, 64>>

\* a pass has clamped the middle note of a motif
C34_Clamped ==
  /\ last.op = "applyRecursion" /\ ~last.threw
  /\ expanded.sequence = <<-3>>
  /\ expanded.depth = 1
  /\ expanded.notes = <<-3, 0, -3>>

(***************************************************************************)
(* What generateSequence returns                                           *)
(***************************************************************************)
\* note is root + 12 * o + interval for an octave index o below octaveRange
\* and an interval of the scale
OfTheScale(note, scaleName, root, octaveRange) ==
  \E o \in 0..(octaveRange - 1), j \in DOMAIN SCALES[scaleName] :
    note = root + 12 * o + SCALES[scaleName][j]

\* no note of the scale, over the octaves, is a MIDI note
NoNoteInRange(scaleName, root, octaveRange) ==
  \A o \in 0..(octaveRange - 1), j \in DOMAIN SCALES[scaleName] :
    ~InMidiRange(root + 12 * o + SCALES[scaleName][j])

\* the call generateSequence(length, scaleName, seed, root, octaveRange)
\* fails or returns as claim C35 says, root and octaveRange being 60 and 2
\* when omitted
AsClaimed(length, scaleName, root, octaveRange, out) ==
  IF \/ length < 1 \/ length > 256
     \/ scaleName \notin DOMAIN SCALES
     \/ NoNoteInRange(scaleName, root, octaveRange)
    THEN out.threw
    ELSE /\ ~out.threw
         /\ Len(out.notes) = length
         /\ \A i \in 1..length :
              /\ OfTheScale(out.notes[i], scaleName, root, octaveRange)
              /\ out.notes[i] >= 0 /\ out.notes[i] <= 127

\* C35: generateSequence(length, scale, seed, root, octaveRange) fails when
\* length is outside [1,256], the scale is unknown or no note of the scale
\* over the octaves is in [0,127], and otherwise returns exactly `length`
\* notes, each root + 12 * o + interval for an octave index 0 <= o <
\* octaveRange and an interval of the scale, and each within [0,127].
C35_GeneratedNotes ==
  \A k \in DOMAIN results :
    AsClaimed(results[k].args[1], results[k].args[2],
              OrDefault(results[k].args[4], 60),
              OrDefault(results[k].args[5], 2), results[k].out)

\* C35 witness: three notes of the major scale were generated from root
\* 120, whose second octave lies above the MIDI range
C35_Witness ==
  /\ last.op = "generateSequence" /\ ~last.threw
  /\ \E k \in DOMAIN results :
       /\ results[k].args[4] = {120}
       /\ Len(results[k].out.notes) = 3
       /\ \E j \in DOMAIN SCALES.major :
            ~InMidiRange(120 + 12 + SCALES.major[j])

(***************************************************************************)
(* The explicit clock.  A time argument of 0 is a supplied one: the        *)
(* instant 0.                                                              *)
(***************************************************************************)
\* C36: a recordInput that is given a timestamp t >= 0 stores exactly t, a
\* calculateConsensus that is given `now` returns the consensus of the
\* table at exactly `now`, and a pruneOldInputs that is given `now` deletes
\* exactly the entries older than two windows at `now`, whatever the wall
\* clock reads.
C36_ExplicitClock ==
  [][/\ \A u \in Users, v \in {ObjA, ObjB}, t \in StampArgs :
          \A c \in ClockReads(t) :
            recordInput(u, v, t, c) => inputs'[u].timestamp = t
     /\ (last'.op = "calculateConsensus" /\ ~last'.threw) =>
          consensus' = ConsensusResult(inputs, last'.t)
     /\ last'.op = "pruneOldInputs" =>
          /\ inputs' = MapDelete(inputs, Expired(last'.t))
          /\ last'.ret = Cardinality(Expired(last'.t))]_vars

\* C36 for the time arguments other than 0
C36_ExplicitClock_Nonzero ==
  [][/\ \A u \in Users, v \in {ObjA, ObjB}, t \in StampArgs \ {0} :
          \A c \in ClockReads(t) :
            recordInput(u, v, t, c) => inputs'[u].timestamp = t
     /\ (last'.op = "calculateConsensus" /\ ~last'.threw /\ last'.t # 0) =>
          consensus' = ConsensusResult(inputs, last'.t)
     /\ (last'.op = "pruneOldInputs" /\ last'.t # 0) =>
          /\ inputs' = MapDelete(inputs, Expired(last'.t))
          /\ last'.ret = Cardinality(Expired(last'.t))]_vars

(***************************************************************************)
(* Range preservation.  Every input value and override value of the model  *)
(* is within [0, 1], and the smoothing factor is 0.15.                     *)
(***************************************************************************)
\* the values of param in the entries that qualify at `now`
QualifyingValues(param, now) ==
  {inputs[u].values.m[param] : u \in Qualifying(inputs, param, now)}

\* every state value is within [0, 1]
StateInUnitRange == \A p \in PARAMETERS : state[p] >= 0 /\ state[p] <= Q

\* every consensus value of the result is between the smallest and the
\* largest qualifying input value of its parameter
ConsensusInInputRange(result, now) ==
  \A p \in DOMAIN result.m :
    /\ \E lo \in QualifyingValues(p, now) : lo <= result.m[p]
    /\ \E hi \in QualifyingValues(p, now) : result.m[p] <= hi

\* C37: each consensus value that calculateConsensus returns lies between
\* the smallest and the largest qualifying input value of its parameter,
\* and, the input and override values being within [0, 1], every state
\* value is within [0, 1] after any recordInput, removeInput,
\* pruneOldInputs, calculateConsensus, applyConsensus, setOverride,
\* clearOverrides and reset calls.
C37_RangePreserved ==
  /\ [](StateInUnitRange)
  /\ [][(last'.op = "calculateConsensus" /\ ~last'.threw /\ consensus'.k = "object") =>
          ConsensusInInputRange(consensus', last'.t)]_vars

\* C37 where no qualifying input is so far ahead of `now` that Math.exp
\* overflows, and for the state values that such a consensus has not made NaN
C37_RangePreserved_FiniteWeights ==
  /\ [](\A p \in PARAMETERS : state[p] = NaN \/ (state[p] >= 0 /\ state[p] <= Q))
  /\ [][(/\ last'.op = "calculateConsensus" /\ ~last'.threw /\ consensus'.k = "object"
         /\ \A p \in PARAMETERS : ~InfiniteWeight(inputs, p, last'.t)) =>
          ConsensusInInputRange(consensus', last'.t)]_vars

\* a consensus value of NaN has been merged into the state
C37_StateIsNaN ==
  /\ last.op = "applyConsensus"
  /\ \E p \in PARAMETERS : state[p] = NaN

(***************************************************************************)
(* Interleaving.  Every call is one step: it runs to completion before the *)
(* next call starts.                                                       *)
(***************************************************************************)
\* the payloads and the timestamps of the recordInput calls that arrive
ArrivingValues == {ObjA, ObjB}

ArrivingStamps == {1, FutureStamp}

\* the instant of the driver tick that follows the calls: one window later
NextTick == 1 + INPUT_DECAY_WINDOW_MS

====
